---- MODULE Spec2Model ----
(***************************************************************************)
(* VSCodeProtocol (src/debug/netcoredbg/vscodeprotocol.cpp): the command   *)
(* loop thread, the engine threads that call EmitEvent, the output mutex,  *)
(* the sequence counter and the frames written to std::cout.               *)
(*                                                                         *)
(* Texts are TLA+ strings, so a frame's Content-Length is the length of    *)
(* the text really written.  JSON values are tagged records                *)
(* [t |-> type, v |-> value]; an object's value is a function from its     *)
(* keys to JSON values.                                                    *)
(***************************************************************************)
EXTENDS Integers, Sequences, FiniteSets, TLC

(***************************************************************************)
(* Bounds of the model.                                                    *)
(***************************************************************************)
\* engine threads that call EmitEvent
NumEngineThreads == 2
\* EmitEvent calls made by the engine threads, all together
MaxEmits == 2
\* frames the client sends before it closes the input stream
MaxRequests == 2
\* the longest list of filters a setExceptionBreakpoints request carries
MaxFilters == 3
MaxBlocks == 3

(***************************************************************************)
(* nlohmann::json values and json::dump().                                 *)
(***************************************************************************)
JNull == [t |-> "null", v |-> 0]
JBool(b) == [t |-> "boolean", v |-> b]
JNum(n) == [t |-> "number", v |-> n]
JStr(s) == [t |-> "string", v |-> s]
JArr(q) == [t |-> "array", v |-> q]
JObj(f) == [t |-> "object", v |-> f]

\* json::object(): the object with no member
EmptyObject == JObj(<<>>)

\* object[key] = value
Put(o, key, value) == JObj((key :> value) @@ o.v)

\* object.find(key) != object.end()
Has(o, key) == key \in DOMAIN o.v

\* The keys the program reads or writes, in the order of std::map<std::string>
\* (nlohmann::json keeps an object's members sorted by key).
KeyOrder ==
    << "LANG", "allThreadsContinued", "args", "arguments", "body", "breakMode",
       "breakpoints", "category", "command", "condition", "count", "cwd",
       "description", "details", "env", "evaluateName", "event",
       "exceptionId", "exitCode", "expression", "filter", "filters",
       "frameId", "fullTypeName", "innerException", "levels", "line",
       "message", "name", "namedVariables", "output", "path", "processId",
       "program", "request_seq", "result", "scopes", "seq", "source",
       "stackFrames", "stackTrace", "start", "startFrame", "stopAtEntry",
       "success", "supportTerminateDebuggee",
       "supportsConditionalBreakpoints", "supportsConfigurationDoneRequest",
       "supportsExceptionInfoRequest", "supportsExceptionOptions",
       "supportsFunctionBreakpoints", "terminateDebuggee", "threadId",
       "threads", "totalFrames", "type", "typeName", "value", "variables",
       "variablesReference" >>

\* the escaping dump() applies to one character of a string
EscapeChar(c) ==
    CASE c = "\"" -> "\\\""
      [] c = "\\" -> "\\\\"
      [] c = "\n" -> "\\n"
      [] c = "\r" -> "\\r"
      [] OTHER -> c

RECURSIVE Escape(_)
\* the escaping dump() applies inside a string (by halves, to keep the
\* evaluation shallow; s is text as a value, computed once)
Escape(text) ==
    CHOOSE r \in
        { IF Len(s) <= 1 THEN EscapeChar(s)
          ELSE Escape(SubSeq(s, 1, Len(s) \div 2))
               \o Escape(SubSeq(s, Len(s) \div 2 + 1, Len(s))) :
          s \in {text} } : TRUE

RECURSIVE Dump(_)
RECURSIVE DumpMembers(_, _, _)
RECURSIVE DumpElements(_, _)
\* the members keys[i..] of object value f, comma separated
DumpMembers(f, keys, i) ==
    IF i > Len(keys) THEN ""
    ELSE (IF i = 1 THEN "" ELSE ",")
         \o "\"" \o keys[i] \o "\":" \o Dump(f[keys[i]])
         \o DumpMembers(f, keys, i + 1)

DumpElements(q, i) ==
    IF i > Len(q) THEN ""
    ELSE (IF i = 1 THEN "" ELSE ",") \o Dump(q[i]) \o DumpElements(q, i + 1)

\* json::dump(): compact, members sorted by key (j is json as a value,
\* computed once)
Dump(json) ==
    CHOOSE r \in
        { CASE j.t = "null" -> "null"
            [] j.t = "boolean" -> (IF j.v THEN "true" ELSE "false")
            [] j.t = "number" -> ToString(j.v)
            [] j.t = "string" -> "\"" \o Escape(j.v) \o "\""
            [] j.t = "array" -> "[" \o DumpElements(j.v, 1) \o "]"
            [] j.t = "object" ->
                  "{" \o DumpMembers(j.v, SelectSeq(KeyOrder, LAMBDA k : k \in DOMAIN j.v), 1) \o "}" :
          j \in {json} } : TRUE

(***************************************************************************)
(* Texts of the wire format and of the log.                                *)
(***************************************************************************)
TWO_CRLF == "\r\n\r\n"
CONTENT_LENGTH == "Content-Length: "
LOG_COMMAND == "-> (C) "
LOG_RESPONSE == "<- (R) "
LOG_EVENT == "<- (E) "

\* std::string::substr(pos)
substr(s, pos) == SubSeq(s, pos + 1, Len(s))

\* the seq off by one
VSCodeSeq_plusOne(id) == "{\"seq\":" \o ToString(id + 1) \o ","

\* VSCodeSeq(id): "{\"seq\":" + std::to_string(id) + ","
VSCodeSeq(id) == "{\"seq\":" \o ToString(id) \o ","

\* output = VSCodeSeq(m_seqCounter) + output.substr(1)
SeqPrefixed(id, dumped) == VSCodeSeq(id) \o substr(dumped, 1)

(***************************************************************************)
(* HRESULT: a signed 32-bit status; FAILED means negative.                 *)
(***************************************************************************)
S_OK == 0
\* 0x80004005
E_FAIL == -2147467259
\* 0x80004001
E_NOTIMPL == -2147467263
\* 0x80070057
E_INVALIDARG == -2147024809

FAILED(hr) == hr < 0
SUCCEEDED(hr) == hr >= 0

HexDigits == << "0", "1", "2", "3", "4", "5", "6", "7",
                "8", "9", "a", "b", "c", "d", "e", "f" >>

RECURSIVE HexOf(_, _)
\* the lowest `digits` hexadecimal digits of n >= 0, zero filled
HexOf(n, digits) ==
    IF digits = 0 THEN ""
    ELSE HexOf(n \div 16, digits - 1) \o HexDigits[(n % 16) + 1]

\* std::setw(8) << std::setfill('0') << std::hex << Status: a negative int
\* is printed as its 32-bit two's complement
Hex8(hr) ==
    IF hr >= 0 THEN HexOf(hr, 8)
    ELSE LET low31 == (hr + 2147483647) + 1
         IN  HexDigits[8 + (low31 \div 268435456) + 1] \o HexOf(low31, 7)

\* the status printed in decimal
FailedCommandMessage_decimal(command, status) ==
    "Failed command '" \o command \o "' : " \o ToString(status)

\* "Failed command '" << command << "' : " << "0x" << ... << Status
FailedCommandMessage(command, Status) ==
    "Failed command '" \o command \o "' : " \o "0x" \o Hex8(Status)

(***************************************************************************)
(* The command handlers of HandleCommand.  A handler reads the arguments,  *)
(* calls the engine (m_debugger) and fills the body.  Its outcome is a     *)
(* record: thrown (a json or std exception left the handler), Status,      *)
(* body, calls (the engine operations invoked, in order) and exit (the     *)
(* handler set m_exit).  reply is what the engine answers: hr, the HRESULT *)
(* of the engine operation, and tid, the last stopped thread.              *)
(***************************************************************************)
Call(op, args) == [op |-> op, args |-> args]

Result(status, body, calls) ==
    [thrown |-> FALSE, Status |-> status, body |-> body, calls |-> calls,
     exit |-> FALSE]

\* json::out_of_range from at(), json::type_error from a conversion,
\* std::invalid_argument from std::stoi
Throw ==
    [thrown |-> TRUE, Status |-> S_OK, body |-> EmptyObject, calls |-> <<>>,
     exit |-> FALSE]

\* arguments.at(key) converts to the type
AtIs(o, key, type) == Has(o, key) /\ o.v[key].t = type
\* arguments.value(key, default) converts to the type of the default
ValueIs(o, key, type) == ~Has(o, key) \/ o.v[key].t = type
value(o, key, default) == IF Has(o, key) THEN o.v[key].v ELSE default

\* IfFailRet(hr): a failure leaves the handler with the body as it is
IfFailRet(hr, body, calls, rest) ==
    IF FAILED(hr) THEN Result(hr, body, calls) ELSE rest

\* one capability left out
AddCapabilitiesTo_four(capabilities) ==
    Put(Put(Put(Put(capabilities,
        "supportsConfigurationDoneRequest", JBool(TRUE)),
        "supportsFunctionBreakpoints", JBool(TRUE)),
        "supportsConditionalBreakpoints", JBool(TRUE)),
        "supportTerminateDebuggee", JBool(TRUE))

\* AddCapabilitiesTo(capabilities)
AddCapabilitiesTo(capabilities) ==
    Put(Put(Put(Put(Put(capabilities,
        "supportsConfigurationDoneRequest", JBool(TRUE)),
        "supportsFunctionBreakpoints", JBool(TRUE)),
        "supportsConditionalBreakpoints", JBool(TRUE)),
        "supportTerminateDebuggee", JBool(TRUE)),
        "supportsExceptionInfoRequest", JBool(TRUE))

\* what the engine hands back besides its status
EngineBreakpoints == JArr(<<>>)
EngineThreadList == JArr(<<>>)
EngineStackFrames == JArr(<<>>)
EngineScopes == JArr(<<>>)
EngineVariables == JArr(<<>>)
EngineOutput == "out"

\* VSCodeExceptionBreakModeKeyWord
KW_ALL == "all"
KW_ALWAYS == "always"
KW_NEVER == "never"
KW_USERUNHANDLED == "userUnhandled"
KW_USERUNHANDLED_A == "user-unhandled"
KW_UNHANDLED == "unhandled"

\* ExceptionBreakMode: the set of the bits that are set (All, UserUnhandled);
\* the default constructed mode has none set, which is the mode Never
DefaultMode == {}
setAll(mode) == mode \cup {"All"}
setUserUnhandled(mode) == mode \cup {"UserUnhandled"}
resetAll(mode) == {}

RECURSIVE ModeAfter(_, _)
\* the mode after the given methods were called on it, in order
ModeAfter(mode, methods) ==
    IF methods = <<>> THEN mode
    ELSE ModeAfter(CASE Head(methods) = "setAll" -> setAll(mode)
                     [] Head(methods) = "setUserUnhandled" ->
                            setUserUnhandled(mode)
                     [] Head(methods) = "resetAll" -> resetAll(mode),
                   Tail(methods))

\* the answers of the predicates of a mode; OnlyUnhandled() is not decided by
\* the bits
PredicatesOf(mode, onlyUnhandled) ==
    [Never |-> mode = {}, All |-> "All" \in mode,
     OnlyUnhandled |-> onlyUnhandled,
     UserUnhandled |-> "UserUnhandled" \in mode]

RECURSIVE FoldFilters_keepingNever(_, _)
\* FoldFilters when "never" is left out of the loop
FoldFilters_keepingNever(filters, i) ==
    IF i > Len(filters) THEN <<>>
    ELSE LET f == filters[i].v
         IN  (IF f = KW_ALL \/ f = KW_ALWAYS THEN <<"setAll">> ELSE <<>>)
             \o (IF f = KW_USERUNHANDLED \/ f = KW_USERUNHANDLED_A
                 THEN <<"setUserUnhandled">> ELSE <<>>)
             \o FoldFilters_keepingNever(filters, i + 1)

RECURSIVE FoldFilters(_, _)
\* The loop over filters: the ExceptionBreakMode methods it calls, in order,
\* on the default constructed mode.
FoldFilters(filters, i) ==
    IF i > Len(filters) THEN <<>>
    ELSE LET f == filters[i].v
         IN  (IF f = KW_ALL \/ f = KW_ALWAYS THEN <<"setAll">> ELSE <<>>)
             \o (IF f = KW_USERUNHANDLED \/ f = KW_USERUNHANDLED_A
                 THEN <<"setUserUnhandled">> ELSE <<>>)
             \o (IF f = KW_NEVER THEN <<"resetAll">> ELSE <<>>)
             \o FoldFilters(filters, i + 1)

AllStrings(q) == \A i \in 1..Len(q) : q[i].t = "string"

Cmd_setExceptionBreakpoints(arguments, reply) ==
    IF ~(~Has(arguments, "filters")
         \/ (AtIs(arguments, "filters", "array")
             /\ AllStrings(arguments.v["filters"].v)))
    THEN Throw
    ELSE LET filters == value(arguments, "filters", <<>>)
             mode == FoldFilters(filters, 1)
         IN  Result(S_OK,
                    Put(EmptyObject, "supportsExceptionOptions", JBool(FALSE)),
                    << Call("InsertExceptionBreakpoint", <<mode, "*">>) >>)

Cmd_configurationDone(arguments, reply) ==
    Result(reply.hr, EmptyObject, << Call("ConfigurationDone", <<>>) >>)

\* getVSCodeBreakMode with UserUnhandled() asked before All()
getVSCodeBreakMode_userFirst(breakMode) ==
    IF breakMode.Never THEN KW_NEVER
    ELSE IF breakMode.UserUnhandled THEN KW_USERUNHANDLED
    ELSE IF breakMode.All THEN KW_ALWAYS
    ELSE IF breakMode.OnlyUnhandled THEN KW_UNHANDLED
    ELSE "undefined"

\* ExceptionInfoResponse::getVSCodeBreakMode; breakMode gives the answers of
\* the mode's predicates Never(), All(), OnlyUnhandled(), UserUnhandled()
getVSCodeBreakMode(breakMode) ==
    IF breakMode.Never THEN KW_NEVER
    ELSE IF breakMode.All THEN KW_ALWAYS
    ELSE IF breakMode.OnlyUnhandled THEN KW_UNHANDLED
    ELSE IF breakMode.UserUnhandled THEN KW_USERUNHANDLED
    ELSE "undefined"

\* getVSCode(ExceptionDetails) of details with no inner exception
getVSCode(details) ==
    JObj( "message" :> JStr(details.message)
       @@ "typeName" :> JStr(details.typeName)
       @@ "fullTypeName" :> JStr(details.fullTypeName)
       @@ "evaluateName" :> JStr(details.evaluateName)
       @@ "stackTrace" :> JStr(details.stackTrace)
       @@ "innerException" :> JArr(<<>>) )

\* the answers the predicates of a break mode may give
BreakModes ==
    [Never : BOOLEAN, All : BOOLEAN, OnlyUnhandled : BOOLEAN,
     UserUnhandled : BOOLEAN]
BreakModeAll ==
    [Never |-> FALSE, All |-> TRUE, OnlyUnhandled |-> FALSE,
     UserUnhandled |-> FALSE]

\* the ExceptionInfoResponse the engine fills in
EngineExceptionInfo(breakMode) ==
    [breakMode |-> breakMode,
     exceptionId |-> "E", description |-> "",
     details |-> [message |-> "", typeName |-> "", fullTypeName |-> "",
                  evaluateName |-> "", stackTrace |-> ""]]

Cmd_exceptionInfo(arguments, reply) ==
    IF ~AtIs(arguments, "threadId", "number") THEN Throw
    ELSE LET threadId == arguments.v["threadId"].v
             info == EngineExceptionInfo(reply.breakMode)
             \* the call, with the break mode of the response it filled in
             calls == << Call("GetExceptionInfoResponse",
                              <<threadId, info.breakMode>>) >>
         IN  IF reply.hr = S_OK
             THEN Result(S_OK,
                    JObj( "breakMode" :> JStr(getVSCodeBreakMode(info.breakMode))
                       @@ "exceptionId" :> JStr(info.exceptionId)
                       @@ "description" :> JStr(info.description)
                       @@ "details" :> getVSCode(info.details) ),
                    calls)
             ELSE Result(E_FAIL, EmptyObject, calls)

\* b.at("line"), b.value("condition", std::string())
SourceBreakpointOk(b) ==
    /\ b.t = "object"
    /\ AtIs(b, "line", "number")
    /\ ValueIs(b, "condition", "string")

Cmd_setBreakpoints(arguments, reply) ==
    IF ~(/\ AtIs(arguments, "breakpoints", "array")
         /\ \A i \in 1..Len(arguments.v["breakpoints"].v) :
                SourceBreakpointOk(arguments.v["breakpoints"].v[i])
         /\ AtIs(arguments, "source", "object")
         /\ AtIs(arguments.v["source"], "path", "string"))
    THEN Throw
    ELSE LET bps == arguments.v["breakpoints"].v
             srcBreakpoints ==
                 [i \in 1..Len(bps) |->
                     << bps[i].v["line"].v, value(bps[i], "condition", "") >>]
             calls == << Call("SetBreakpoints",
                              << arguments.v["source"].v["path"].v,
                                 srcBreakpoints >>) >>
         IN  IfFailRet(reply.hr, EmptyObject, calls,
                 Result(S_OK, Put(EmptyObject, "breakpoints", EngineBreakpoints),
                        calls))

Cmd_threads(arguments, reply) ==
    LET calls == << Call("GetThreads", <<>>) >>
    IN  IfFailRet(reply.hr, EmptyObject, calls,
            Result(S_OK, Put(EmptyObject, "threads", EngineThreadList), calls))

\* Terminate and Detach exchanged
Cmd_disconnect_swapped(arguments, reply) ==
    LET action ==
            IF ~Has(arguments, "terminateDebuggee")
            THEN "DisconnectDefault"
            ELSE IF arguments.v["terminateDebuggee"].v
                 THEN "DisconnectDetach"
                 ELSE "DisconnectTerminate"
    IN  [Result(S_OK, EmptyObject, << Call("Disconnect", <<action>>) >>)
            EXCEPT !.exit = TRUE]

Cmd_disconnect(arguments, reply) ==
    IF Has(arguments, "terminateDebuggee")
       /\ arguments.v["terminateDebuggee"].t # "boolean"
    THEN Throw
    ELSE LET action ==
                 IF ~Has(arguments, "terminateDebuggee")
                 THEN "DisconnectDefault"
                 ELSE IF arguments.v["terminateDebuggee"].v
                      THEN "DisconnectTerminate"
                      ELSE "DisconnectDetach"
         IN  [Result(S_OK, EmptyObject, << Call("Disconnect", <<action>>) >>)
                 EXCEPT !.exit = TRUE]

Cmd_stackTrace(arguments, reply) ==
    IF ~(/\ AtIs(arguments, "threadId", "number")
         /\ ValueIs(arguments, "startFrame", "number")
         /\ ValueIs(arguments, "levels", "number"))
    THEN Throw
    ELSE LET calls == << Call("GetStackTrace",
                              << arguments.v["threadId"].v,
                                 value(arguments, "startFrame", 0),
                                 value(arguments, "levels", 0) >>) >>
         IN  IfFailRet(reply.hr, EmptyObject, calls,
                 Result(S_OK,
                        JObj( "stackFrames" :> EngineStackFrames
                           @@ "totalFrames" :> JNum(0) ),
                        calls))

Cmd_continue(arguments, reply) ==
    IF ~AtIs(arguments, "threadId", "number") THEN Throw
    ELSE LET threadId == arguments.v["threadId"].v
         IN  Result(reply.hr,
                    JObj( "allThreadsContinued" :> JBool(TRUE)
                       @@ "threadId" :> JNum(threadId) ),
                    << Call("Continue", <<threadId>>) >>)

Cmd_pause(arguments, reply) ==
    Result(reply.hr, EmptyObject, << Call("Pause", <<>>) >>)

\* next, stepIn and stepOut
Cmd_step(arguments, reply, stepType) ==
    IF ~AtIs(arguments, "threadId", "number") THEN Throw
    ELSE Result(reply.hr, EmptyObject,
                << Call("StepCommand",
                        << arguments.v["threadId"].v, stepType >>) >>)

Cmd_scopes(arguments, reply) ==
    IF ~AtIs(arguments, "frameId", "number") THEN Throw
    ELSE LET calls == << Call("GetScopes", << arguments.v["frameId"].v >>) >>
         IN  IfFailRet(reply.hr, EmptyObject, calls,
                 Result(S_OK, Put(EmptyObject, "scopes", EngineScopes), calls))

Cmd_variables(arguments, reply) ==
    IF ~(/\ ValueIs(arguments, "filter", "string")
         /\ AtIs(arguments, "variablesReference", "number")
         /\ ValueIs(arguments, "start", "number")
         /\ ValueIs(arguments, "count", "number"))
    THEN Throw
    ELSE LET filterName == value(arguments, "filter", "")
             filter == IF filterName = "named" THEN "VariablesNamed"
                       ELSE IF filterName = "indexed" THEN "VariablesIndexed"
                       ELSE "VariablesBoth"
             calls == << Call("GetVariables",
                              << arguments.v["variablesReference"].v, filter,
                                 value(arguments, "start", 0),
                                 value(arguments, "count", 0) >>) >>
         IN  IfFailRet(reply.hr, EmptyObject, calls,
                 Result(S_OK, Put(EmptyObject, "variables", EngineVariables),
                        calls))

\* The frame Evaluate is given: the id of the request, or the frame at level
\* 0 of a thread, StackFrame(threadId, 0, "").id
\* the evaluate handler when frameId is not looked at
Cmd_evaluate_lastStopped(arguments, reply) ==
    IF ~AtIs(arguments, "expression", "string") THEN Throw
    ELSE IF Has(arguments, "frameId") /\ arguments.v["frameId"].t # "number"
    THEN Throw
    ELSE LET expression == arguments.v["expression"].v
             query == << Call("GetLastStoppedThreadId", <<reply.tid>>) >>
             frameId == << "StackFrame", reply.tid, 0 >>
             calls == query \o << Call("Evaluate", <<frameId, expression>>) >>
         IN  IF FAILED(reply.hr)
             THEN Result(reply.hr,
                         Put(EmptyObject, "message", JStr(EngineOutput)), calls)
             ELSE Result(S_OK,
                         JObj( "result" :> JStr("")
                            @@ "type" :> JStr("")
                            @@ "variablesReference" :> JNum(0) ),
                         calls)

\* frameId is the id given, or the id of StackFrame(threadId, 0, "")
Cmd_evaluate(arguments, reply) ==
    IF ~AtIs(arguments, "expression", "string") THEN Throw
    ELSE IF Has(arguments, "frameId") /\ arguments.v["frameId"].t # "number"
    THEN Throw
    ELSE LET expression == arguments.v["expression"].v
             \* the call, with the thread id it returned
             query == IF Has(arguments, "frameId") THEN <<>>
                      ELSE << Call("GetLastStoppedThreadId", <<reply.tid>>) >>
             frameId == IF Has(arguments, "frameId")
                        THEN << "id", arguments.v["frameId"].v >>
                        ELSE << "StackFrame", reply.tid, 0 >>
             calls == query \o << Call("Evaluate", <<frameId, expression>>) >>
         IN  IF FAILED(reply.hr)
             THEN Result(reply.hr,
                         Put(EmptyObject, "message", JStr(EngineOutput)), calls)
             ELSE Result(S_OK,
                         JObj( "result" :> JStr("")
                            @@ "type" :> JStr("")
                            @@ "variablesReference" :> JNum(0) ),
                         calls)

Cmd_setVariable(arguments, reply) ==
    IF ~(/\ AtIs(arguments, "name", "string")
         /\ AtIs(arguments, "value", "string")
         /\ AtIs(arguments, "variablesReference", "number"))
    THEN Throw
    ELSE LET calls == << Call("SetVariable",
                              << arguments.v["name"].v, arguments.v["value"].v,
                                 arguments.v["variablesReference"].v >>) >>
         IN  IF FAILED(reply.hr)
             THEN Result(reply.hr,
                         Put(EmptyObject, "message", JStr(EngineOutput)), calls)
             ELSE Result(S_OK, Put(EmptyObject, "value", JStr(EngineOutput)),
                         calls)

\* std::string::npos
npos == -1

RECURSIVE find(_, _, _)
\* std::string::find(ch) from position pos: the 0-based index, or npos
find(s, ch, pos) ==
    IF pos >= Len(s) THEN npos
    ELSE IF SubSeq(s, pos + 1, pos + 1) = ch THEN pos
    ELSE find(s, ch, pos + 1)

\* a count of type size_t computed as n: a negative n wraps to a huge count
SizeT(n, huge) == IF n < 0 THEN huge ELSE n

Min(a, b) == IF a < b THEN a ELSE b

\* std::string(s, pos, count), pos <= s.size()
StdSubstr(s, pos, count) == SubSeq(s, pos + 1, pos + Min(count, Len(s) - pos))

\* s.erase(pos, count), pos <= s.size()
StdErase(s, pos, count) ==
    SubSeq(s, 1, pos) \o SubSeq(s, pos + Min(count, Len(s) - pos) + 1, Len(s))

\* The decomposition of one function breakpoint name into
\* (module, name, params)
FunctionBreakpointOf(fullName) ==
    LET i1 == find(fullName, "!", 0)
        module == IF i1 # npos THEN StdSubstr(fullName, 0, i1) ELSE ""
        name1 == IF i1 # npos THEN StdErase(fullName, 0, i1 + 1) ELSE fullName
        i == find(name1, "(", 0)
        closeBrace == find(name1, ")", 0)
        huge == Len(name1) + 1
        params == IF i # npos
                  THEN StdSubstr(name1, i, SizeT(closeBrace - i + 1, huge))
                  ELSE ""
        name == IF i # npos
                THEN StdErase(name1, i, SizeT(closeBrace, huge))
                ELSE name1
    IN  << module, name, params >>

FunctionBreakpointOk(b) ==
    /\ b.t = "object"
    /\ AtIs(b, "name", "string")
    /\ ValueIs(b, "condition", "string")

Cmd_setFunctionBreakpoints(arguments, reply) ==
    IF ~(/\ AtIs(arguments, "breakpoints", "array")
         /\ \A i \in 1..Len(arguments.v["breakpoints"].v) :
                FunctionBreakpointOk(arguments.v["breakpoints"].v[i]))
    THEN Throw
    ELSE LET bps == arguments.v["breakpoints"].v
             funcBreakpoints ==
                 [i \in 1..Len(bps) |->
                     FunctionBreakpointOf(bps[i].v["name"].v)
                     \o << value(bps[i], "condition", "") >>]
             calls == << Call("SetFunctionBreakpoints", <<funcBreakpoints>>) >>
         IN  IfFailRet(reply.hr, EmptyObject, calls,
                 Result(S_OK, Put(EmptyObject, "breakpoints", EngineBreakpoints),
                        calls))

DecimalDigits == << "0", "1", "2", "3", "4", "5", "6", "7", "8", "9" >>
IsDigit(c) == \E d \in 1..10 : DecimalDigits[d] = c
DigitValue(c) == (CHOOSE d \in 1..10 : DecimalDigits[d] = c) - 1

RECURSIVE StoiDigits(_, _, _)
\* the value of the decimal digits of s from position pos on, after acc
StoiDigits(s, pos, acc) ==
    IF pos < Len(s) /\ IsDigit(SubSeq(s, pos + 1, pos + 1))
    THEN StoiDigits(s, pos + 1, 10 * acc + DigitValue(SubSeq(s, pos + 1, pos + 1)))
    ELSE acc

RECURSIVE SkipSpaces(_, _)
SkipSpaces(s, pos) ==
    IF pos < Len(s) /\ SubSeq(s, pos + 1, pos + 1) = " "
    THEN SkipSpaces(s, pos + 1) ELSE pos

\* std::stoi(s): leading blanks, an optional sign, then decimal digits; what
\* follows the digits is ignored.  No digit: std::invalid_argument.
StoiSign(s) ==
    LET p == SkipSpaces(s, 0)
        c == IF p < Len(s) THEN SubSeq(s, p + 1, p + 1) ELSE ""
    IN  IF c = "-" \/ c = "+" THEN << p + 1, IF c = "-" THEN -1 ELSE 1 >>
        ELSE << p, 1 >>
StoiThrows(s) ==
    LET p == StoiSign(s)[1]
    IN  ~(p < Len(s) /\ IsDigit(SubSeq(s, p + 1, p + 1)))
stoi(s) == StoiSign(s)[2] * StoiDigits(s, StoiSign(s)[1], 0)

\* std::stoul(s) of a text; a negative number wraps to a huge one
stoul(s, huge) == SizeT(stoi(s), huge)

\* std::string::find(part): the 0-based index of the first occurrence of
\* part in s, or npos
findString(s, part) ==
    LET places == { i \in 0..(Len(s) - Len(part)) :
                      SubSeq(s, i + 1, i + Len(part)) = part }
    IN  IF places = {} THEN npos
        ELSE CHOOSE i \in places : \A j \in places : i <= j

\* ReadData's loop over the header: the number of characters taken from
\* the stream when the loop goes on to the content length, which is the
\* least number at which header ends with TWO_CRLF and CONTENT_LENGTH is
\* found in it; 0 when cin.get fails before that
HeaderLength(stream) ==
    LET lengths ==
            { n \in Len(TWO_CRLF)..Len(stream) :
                /\ SubSeq(stream, n - Len(TWO_CRLF) + 1, n) = TWO_CRLF
                /\ findString(SubSeq(stream, 1, n), CONTENT_LENGTH) # npos }
    IN  IF lengths = {} THEN 0
        ELSE CHOOSE n \in lengths : \A m \in lengths : n <= m

\* ReadData from the content length on, the header being the first n
\* characters of the stream: the result, the number of characters taken
\* from the stream, and whether std::stoul threw
ReadBody(stream, n) ==
    IF n = 0 THEN [result |-> "", taken |-> Len(stream), thrown |-> FALSE]
    ELSE LET header == SubSeq(stream, 1, n)
             lengthIndex == findString(header, CONTENT_LENGTH)
             digits == StdSubstr(header, lengthIndex + Len(CONTENT_LENGTH),
                                 Len(header))
             contentLength == stoul(digits, Len(stream) + 1)
         IN  IF StoiThrows(digits)
             THEN [result |-> "", taken |-> n, thrown |-> TRUE]
             ELSE IF Len(stream) - n < contentLength
             THEN [result |-> "", taken |-> Len(stream), thrown |-> FALSE]
             ELSE [result |-> SubSeq(stream, n + 1, n + contentLength),
                   taken |-> n + contentLength, thrown |-> FALSE]

\* ReadData that gives up at a header without Content-Length
ReadDataOf_givingUp(stream) ==
    LET first == findString(stream, TWO_CRLF)
    IN  IF /\ first # npos
           /\ findString(SubSeq(stream, 1, first), CONTENT_LENGTH) = npos
        THEN [result |-> "", taken |-> first + Len(TWO_CRLF),
              thrown |-> FALSE]
        ELSE ReadBody(stream, HeaderLength(stream))

\* VSCodeProtocol::ReadData on the stream of the characters not read yet
ReadDataOf(stream) == ReadBody(stream, HeaderLength(stream))

Cmd_attach(arguments, reply) ==
    IF ~Has(arguments, "processId") THEN Throw
    ELSE LET processIdArg == arguments.v["processId"]
         IN  IF processIdArg.t = "string"
             THEN IF StoiThrows(processIdArg.v) THEN Throw
                  ELSE Result(reply.hr, EmptyObject,
                              << Call("Attach", << stoi(processIdArg.v) >>) >>)
             ELSE IF processIdArg.t = "number"
             THEN Result(reply.hr, EmptyObject,
                         << Call("Attach", << processIdArg.v >>) >>)
             ELSE Result(E_INVALIDARG, EmptyObject, <<>>)

\* arguments.at("env").get<map<string, string>>() does not throw
EnvOk(arguments) ==
    /\ AtIs(arguments, "env", "object")
    /\ \A k \in DOMAIN arguments.v["env"].v :
           arguments.v["env"].v[k].t = "string"

\* the launch handler when the conversion of env is not guarded
Cmd_launch_envRequired(arguments, reply, fileExec, execArgs) ==
    IF ~AtIs(arguments, "cwd", "string") THEN Throw
    ELSE IF ~ValueIs(arguments, "stopAtEntry", "boolean") THEN Throw
    ELSE IF ~EnvOk(arguments) THEN Throw
    ELSE LET cwd == arguments.v["cwd"].v
             env == [k \in DOMAIN arguments.v["env"].v |->
                        arguments.v["env"].v[k].v]
             stopAtEntry == value(arguments, "stopAtEntry", FALSE)
         IN  IF fileExec # ""
             THEN Result(reply.hr, EmptyObject,
                         << Call("Launch",
                                 <<fileExec, execArgs, env, cwd, stopAtEntry>>) >>)
             ELSE IF ~(/\ \/ ~Has(arguments, "args")
                          \/ /\ AtIs(arguments, "args", "array")
                             /\ AllStrings(arguments.v["args"].v)
                       /\ AtIs(arguments, "program", "string"))
             THEN Throw
             ELSE LET argv == value(arguments, "args", <<>>)
                      args == << arguments.v["program"].v >>
                              \o [i \in 1..Len(argv) |-> argv[i].v]
                  IN  Result(reply.hr, EmptyObject,
                             << Call("Launch",
                                     <<"dotnet", args, env, cwd, stopAtEntry>>) >>)

\* the launch handler; fileExec and execArgs are m_fileExec and m_execArgs
Cmd_launch(arguments, reply, fileExec, execArgs) ==
    IF ~AtIs(arguments, "cwd", "string") THEN Throw
    ELSE IF ~ValueIs(arguments, "stopAtEntry", "boolean") THEN Throw
    ELSE LET cwd == arguments.v["cwd"].v
             env == IF EnvOk(arguments)
                    THEN [k \in DOMAIN arguments.v["env"].v |->
                             arguments.v["env"].v[k].v]
                    ELSE <<>>
             stopAtEntry == value(arguments, "stopAtEntry", FALSE)
         IN  IF fileExec # ""
             THEN Result(reply.hr, EmptyObject,
                         << Call("Launch",
                                 <<fileExec, execArgs, env, cwd, stopAtEntry>>) >>)
             ELSE IF ~(/\ \/ ~Has(arguments, "args")
                          \/ /\ AtIs(arguments, "args", "array")
                             /\ AllStrings(arguments.v["args"].v)
                       /\ AtIs(arguments, "program", "string"))
             THEN Throw
             ELSE LET argv == value(arguments, "args", <<>>)
                      args == << arguments.v["program"].v >>
                              \o [i \in 1..Len(argv) |-> argv[i].v]
                  IN  Result(reply.hr, EmptyObject,
                             << Call("Launch",
                                     <<"dotnet", args, env, cwd, stopAtEntry>>) >>)

(***************************************************************************)
(* Threads.                                                                *)
(***************************************************************************)
\* the thread that runs CommandLoop
CmdThread == 0
EngineThreads == 1..NumEngineThreads
Threads == {CmdThread} \cup EngineThreads
\* m_outMutex is free
NoThread == -1

VARIABLES
    m_seqCounter,       \* uint64_t m_seqCounter
    m_exit,             \* bool m_exit
    m_engineLogOutput,  \* LogNone, LogFile or LogConsole
    m_engineLog,        \* the lines written to the log file
    m_fileExec,         \* the executable override ("" when there is none)
    m_execArgs,         \* the arguments of the executable override
    m_outMutex,         \* the thread that holds m_outMutex, or NoThread
    debugger,           \* the operations invoked on m_debugger, in order
    cout,               \* the chunks written to std::cout, in order
    pc,                 \* where each thread is
    pend,               \* per thread: the chunks of the frame it is writing
    output,             \* per thread: the local std::string output
    event,              \* per thread: the (name, body) EmitEvent was called with
    requestText,        \* CommandLoop: the text ReadData returned
    request,            \* CommandLoop: the parsed request
    Status,             \* CommandLoop: what HandleCommand returned
    body,               \* CommandLoop: the body HandleCommand filled
    nEmits,             \* EmitEvent calls the engine threads have made
    stdin,              \* the frames ReadData has returned, in order
    cin                 \* std::cin: the bytes sent (text), how many were read

vars == << m_seqCounter, m_exit, m_engineLogOutput, m_engineLog, m_fileExec,
           m_execArgs, m_outMutex, debugger, cout, pc, pend, output, event,
           requestText, request, Status, body, nEmits, stdin, cin >>

\* std::cout << CONTENT_LENGTH << output.size() << TWO_CRLF
HeaderOf(text) == CONTENT_LENGTH \o ToString(Len(text)) \o TWO_CRLF

\* The two chunks of one frame: the header, then the body.  msg is the JSON
\* value the body text was dumped from (JNull in a header chunk).
FrameChunks(t, text, msg) ==
    << [by |-> t, text |-> HeaderOf(text), msg |-> JNull],
       [by |-> t, text |-> text, msg |-> msg] >>

(***************************************************************************)
(* HandleCommand: the table of commands.  "initialize" is in the table     *)
(* too; it emits an event, so it runs in several steps (see Initialize).   *)
(***************************************************************************)
Commands ==
    { "initialize", "setExceptionBreakpoints", "configurationDone",
      "exceptionInfo", "setBreakpoints", "launch", "threads", "disconnect",
      "stackTrace", "continue", "pause", "next", "stepIn", "stepOut",
      "scopes", "variables", "evaluate", "attach", "setVariable",
      "setFunctionBreakpoints" }

HandleCommand(command, arguments, reply) ==
    CASE command = "setExceptionBreakpoints" ->
             Cmd_setExceptionBreakpoints(arguments, reply)
      [] command = "configurationDone" -> Cmd_configurationDone(arguments, reply)
      [] command = "exceptionInfo" -> Cmd_exceptionInfo(arguments, reply)
      [] command = "setBreakpoints" -> Cmd_setBreakpoints(arguments, reply)
      [] command = "launch" ->
             Cmd_launch(arguments, reply, m_fileExec, m_execArgs)
      [] command = "threads" -> Cmd_threads(arguments, reply)
      [] command = "disconnect" -> Cmd_disconnect(arguments, reply)
      [] command = "stackTrace" -> Cmd_stackTrace(arguments, reply)
      [] command = "continue" -> Cmd_continue(arguments, reply)
      [] command = "pause" -> Cmd_pause(arguments, reply)
      [] command = "next" -> Cmd_step(arguments, reply, "STEP_OVER")
      [] command = "stepIn" -> Cmd_step(arguments, reply, "STEP_IN")
      [] command = "stepOut" -> Cmd_step(arguments, reply, "STEP_OUT")
      [] command = "scopes" -> Cmd_scopes(arguments, reply)
      [] command = "variables" -> Cmd_variables(arguments, reply)
      [] command = "evaluate" -> Cmd_evaluate(arguments, reply)
      [] command = "attach" -> Cmd_attach(arguments, reply)
      [] command = "setVariable" -> Cmd_setVariable(arguments, reply)
      [] command = "setFunctionBreakpoints" ->
             Cmd_setFunctionBreakpoints(arguments, reply)
      [] OTHER -> Result(E_NOTIMPL, EmptyObject, <<>>)

\* what the engine may answer
EngineStatuses == {S_OK, E_FAIL}
EngineReplies ==
    [hr : EngineStatuses, tid : {1}, breakMode : {BreakModeAll}]
\* to exceptionInfo it may answer with any break mode, and to evaluate with
\* one of two thread ids
RepliesTo(command) ==
    IF command = "exceptionInfo"
    THEN [hr : EngineStatuses, tid : {1}, breakMode : BreakModes]
    ELSE IF command = "evaluate"
    THEN [hr : EngineStatuses, tid : {1, 7}, breakMode : {BreakModeAll}]
    ELSE EngineReplies

(***************************************************************************)
(* The messages written.                                                   *)
(***************************************************************************)
\* EmitEvent: response["type"], ["event"], ["body"]
EventMessage(name, eventBody) ==
    JObj( "type" :> JStr("event") @@ "event" :> JStr(name)
       @@ "body" :> eventBody )

\* the prefix left out of the log line
LogMessage_noPrefix(prefix, text) ==
    EventMessage("output",
        JObj( "category" :> JStr("console")
           @@ "output" :> JStr(text \o "\n") ))

\* Log, case LogConsole: the output event that carries one log line
LogMessage(prefix, text) ==
    EventMessage("output",
        JObj( "category" :> JStr("console")
           @@ "output" :> JStr(prefix \o text \o "\n") ))

\* the handler's message ignored
ResponseMessage_synthesized(command, request_seq, status, handlerBody) ==
    LET common == JObj( "type" :> JStr("response")
                     @@ "command" :> JStr(command)
                     @@ "request_seq" :> request_seq )
    IN  IF SUCCEEDED(status)
        THEN Put(Put(common, "success", JBool(TRUE)), "body", handlerBody)
        ELSE Put(Put(common, "message",
                     JStr(FailedCommandMessage(command, status))),
                 "success", JBool(FALSE))

\* CommandLoop: the response to a request
ResponseMessage(command, request_seq, status, handlerBody) ==
    LET common == JObj( "type" :> JStr("response")
                     @@ "command" :> JStr(command)
                     @@ "request_seq" :> request_seq )
    IN  IF SUCCEEDED(status)
        THEN Put(Put(common, "success", JBool(TRUE)), "body", handlerBody)
        ELSE Put(Put(common, "message",
                     IF ~Has(handlerBody, "message")
                     THEN JStr(FailedCommandMessage(command, status))
                     ELSE handlerBody.v["message"]),
                 "success", JBool(FALSE))

(***************************************************************************)
(* What the client sends.  The client numbers its frames 1, 2, ...; the    *)
(* text of a frame is the dump of the request.                             *)
(***************************************************************************)
NoArguments == JNull

RequestObject(seq, command, arguments) ==
    LET r == JObj( "seq" :> JNum(seq) @@ "type" :> JStr("request")
                @@ "command" :> JStr(command) )
    IN  IF arguments = NoArguments THEN r ELSE Put(r, "arguments", arguments)

Args1(key, val) == JObj(key :> val)

\* (command, arguments) pairs of a debugging session
SessionInputs ==
    { << "initialize", NoArguments >>,
      << "disconnect", NoArguments >>,
      << "disconnect", Args1("terminateDebuggee", JBool(TRUE)) >>,
      << "disconnect", Args1("terminateDebuggee", JBool(FALSE)) >>,
      << "evaluate", Args1("expression", JStr("x")) >>,
      << "next", EmptyObject >>,
      << "frobnicate", NoArguments >> }

\* (command, arguments) pairs that reach every handler
DispatchInputs ==
    SessionInputs \cup
    { << "setExceptionBreakpoints",
         Args1("filters", JArr(<< JStr("always"), JStr("never") >>)) >>,
      << "setExceptionBreakpoints", Args1("filters", JStr("always")) >>,
      << "configurationDone", NoArguments >>,
      << "exceptionInfo", Args1("threadId", JNum(1)) >>,
      << "exceptionInfo", EmptyObject >>,
      << "setBreakpoints",
         JObj( "source" :> Args1("path", JStr("a.cs"))
            @@ "breakpoints" :> JArr(<< Args1("line", JNum(3)) >>) ) >>,
      << "setBreakpoints", Args1("breakpoints", JArr(<<>>)) >>,
      << "launch",
         JObj( "cwd" :> JStr("/") @@ "program" :> JStr("a.dll")
            @@ "env" :> Args1("LANG", JStr("C")) ) >>,
      << "launch", JObj( "cwd" :> JStr("/") @@ "program" :> JStr("a.dll") ) >>,
      << "launch", Args1("cwd", JStr("/")) >>,
      << "threads", NoArguments >>,
      << "disconnect", Args1("terminateDebuggee", JStr("yes")) >>,
      << "stackTrace", Args1("threadId", JNum(1)) >>,
      << "stackTrace", Args1("threadId", JStr("1")) >>,
      << "continue", Args1("threadId", JNum(1)) >>,
      << "continue", NoArguments >>,
      << "pause", NoArguments >>,
      << "next", Args1("threadId", JNum(1)) >>,
      << "stepIn", Args1("threadId", JNum(1)) >>,
      << "stepIn", EmptyObject >>,
      << "stepOut", Args1("threadId", JNum(1)) >>,
      << "stepOut", Args1("threadId", JBool(TRUE)) >>,
      << "scopes", Args1("frameId", JNum(1)) >>,
      << "scopes", EmptyObject >>,
      << "variables", Args1("variablesReference", JNum(1)) >>,
      << "variables", EmptyObject >>,
      << "evaluate", JObj( "expression" :> JStr("x") @@ "frameId" :> JNum(5) ) >>,
      << "evaluate", EmptyObject >>,
      << "attach", Args1("processId", JNum(42)) >>,
      << "attach", Args1("processId", JStr("42")) >>,
      << "attach", Args1("processId", JStr("abc")) >>,
      << "attach", Args1("processId", JBool(TRUE)) >>,
      << "attach", EmptyObject >>,
      << "setVariable",
         JObj( "name" :> JStr("v") @@ "value" :> JStr("1")
            @@ "variablesReference" :> JNum(1) ) >>,
      << "setVariable", Args1("name", JStr("v")) >>,
      << "setFunctionBreakpoints",
         Args1("breakpoints", JArr(<< Args1("name", JStr("M!F(int)")) >>)) >>,
      << "setFunctionBreakpoints", EmptyObject >> }

\* the filter keywords a client may send, and one that is none
FilterWords ==
    { "all", "always", "never", "userUnhandled", "user-unhandled",
      "unhandled", "bogus" }
\* setExceptionBreakpoints with every list of at most MaxFilters of them
FilterInputs ==
    { << "setExceptionBreakpoints",
         Args1("filters", JArr([i \in 1..Len(words) |-> JStr(words[i])])) >> :
      words \in UNION { [1..n -> FilterWords] : n \in 0..MaxFilters } }

\* function breakpoint names: with and without a module, with and without
\* parameters, with nested parentheses and with a parenthesis left open
FunctionNames ==
    { module \o name \o params :
        module \in { "", "M!", "MyModule!" },
        name \in { "F", "Foo.Bar" },
        params \in { "", "()", "(int)", "(int,string)", "(a(b))", "(f(a),b)",
                     "(int" } }
\* setFunctionBreakpoints with one breakpoint of each name, and with two
\* breakpoints of which one has a condition
FunctionInputs ==
    { << "setFunctionBreakpoints",
         Args1("breakpoints", JArr(<< Args1("name", JStr(name)) >>)) >> :
      name \in FunctionNames }
    \cup
    { << "setFunctionBreakpoints",
         Args1("breakpoints",
               JArr(<< JObj( "name" :> JStr("MyModule!Foo.Bar(int,string)")
                          @@ "condition" :> JStr("x") ),
                       Args1("name", JStr("F")) >>)) >> }

\* attach with a processId that is a number, a string of digits, a string
\* that is no number, or neither a string nor a number
ProcessIds ==
    { JNum(42), JStr("42"), JStr("-7"), JStr("abc"), JStr(""), JStr("4x"),
      JBool(TRUE), JArr(<< JNum(42) >>), EmptyObject }
AttachInputs == { << "attach", Args1("processId", id) >> : id \in ProcessIds }

\* a member that may be absent: no member, or the key with one of the values
Optional(key, values) == { << >> } \cup { key :> val : val \in values }

\* launch with env absent, a map of strings, a map with a number, and no map;
\* with and without program, args and stopAtEntry
LaunchInputs ==
    { << "launch", JObj(("cwd" :> JStr("/")) @@ env @@ program @@ args @@ stop) >> :
        env \in Optional("env", { Args1("LANG", JStr("C")), EmptyObject,
                                  Args1("LANG", JNum(1)), JStr("LANG=C"),
                                  JNull }),
        program \in Optional("program", { JStr("a.dll") }),
        args \in Optional("args", { JArr(<< JStr("x"), JStr("y") >>) }),
        stop \in Optional("stopAtEntry", { JBool(TRUE) }) }

\* evaluate without frameId and with one
EvaluateInputs ==
    { << "evaluate", JObj(("expression" :> JStr("x")) @@ frameId) >> :
        frameId \in Optional("frameId", { JNum(0), JNum(5) }) }

\* requests that take one handler through the cases of its arguments
HandlerInputs ==
    { << "initialize", NoArguments >>, << "disconnect", NoArguments >>,
      << "exceptionInfo", Args1("threadId", JNum(1)) >> }
    \cup FilterInputs \cup FunctionInputs \cup AttachInputs \cup LaunchInputs
    \cup EvaluateInputs

\* the frames the client may send as its k-th frame
Requests(inputs, k) == { RequestObject(k, in[1], in[2]) : in \in inputs }

\* frames that are no request: an object without "command", an object
\* without "seq", and a text that is no JSON
NoCommandObject(k) == JObj( "seq" :> JNum(k) @@ "type" :> JStr("request") )
NoSeqObject == JObj( "type" :> JStr("request") @@ "command" :> JStr("threads") )
Garbage == "Content-Type"

AllObjects ==
    UNION { Requests(DispatchInputs, k) \cup {NoCommandObject(k)} :
            k \in 1..MaxRequests }
    \cup {NoSeqObject}
    \cup Requests(HandlerInputs, 1)

\* json::parse on the texts a client of this model sends: the inverse of
\* the client's dump, as the set of pairs (text, value)
ParseTable == { << Dump(o), o >> : o \in AllObjects }
ParseThrows(text) == \A entry \in ParseTable : entry[1] # text
parse(text) == (CHOOSE entry \in ParseTable : entry[1] = text)[2]

SessionTexts(k) == { Dump(o) : o \in Requests(SessionInputs, k) }
DispatchTexts(k) ==
    { Dump(o) : o \in Requests(DispatchInputs, k)
                      \cup {NoCommandObject(k), NoSeqObject} }
    \cup {Garbage}

(***************************************************************************)
(* The state after construction.                                           *)
(***************************************************************************)
\* the value m_seqCounter is constructed with
InitialSeq == 1

Init ==
    /\ m_seqCounter = InitialSeq
    /\ m_exit = FALSE
    /\ m_engineLogOutput = "LogNone"
    /\ m_engineLog = <<>>
    /\ m_fileExec = ""
    /\ m_execArgs = <<>>
    /\ m_outMutex = NoThread
    /\ debugger = <<>>
    /\ cout = <<>>
    /\ pc = [t \in Threads |-> IF t = CmdThread THEN "main" ELSE "idle"]
    /\ pend = [t \in Threads |-> <<>>]
    /\ output = [t \in Threads |-> ""]
    /\ event = [t \in Threads |-> <<>>]
    /\ requestText = ""
    /\ request = JNull
    /\ Status = S_OK
    /\ body = EmptyObject
    /\ nEmits = 0
    /\ stdin = <<>>
    /\ cin = [text |-> "", pos |-> 0]

\* An exception that leaves CommandLoop is caught nowhere: std::terminate
\* ends the process, and with it every thread.
Alive == pc[CmdThread] # "aborted"
\* the engine threads run once the command loop has been entered
Started == pc[CmdThread] # "main"

cmdVars == << requestText, request, Status, body, stdin >>
cfgVars == << m_engineLogOutput, m_fileExec, m_execArgs >>

\* the increment forgotten
NextSeq_forgotten(counter) == counter

\* ++m_seqCounter (a uint64_t: the frames of a model run never wrap it)
NextSeq(counter) == counter + 1

\* Log, its console case written with EmitEvent's lock_guard: the mutex is
\* taken again by the thread that holds it
Log_locking(t, prefix, text) ==
    IF m_engineLogOutput = "LogNone"
    THEN /\ pend' = [pend EXCEPT ![t] = <<>>]
         /\ UNCHANGED << m_seqCounter, m_engineLog >>
    ELSE IF m_engineLogOutput = "LogFile"
    THEN /\ m_engineLog' = Append(m_engineLog, prefix \o text)
         /\ pend' = [pend EXCEPT ![t] = <<>>]
         /\ UNCHANGED m_seqCounter
    ELSE /\ m_outMutex = -1
         /\ UNCHANGED << m_seqCounter, m_engineLog, pend >>

(***************************************************************************)
(* Log(prefix, text), called by thread t with m_outMutex held.             *)
(***************************************************************************)
Log(t, prefix, text) ==
    IF m_engineLogOutput = "LogNone"
    THEN /\ pend' = [pend EXCEPT ![t] = <<>>]
         /\ UNCHANGED << m_seqCounter, m_engineLog >>
    ELSE IF m_engineLogOutput = "LogFile"
    THEN /\ m_engineLog' = Append(m_engineLog, prefix \o text)
         /\ pend' = [pend EXCEPT ![t] = <<>>]
         /\ UNCHANGED m_seqCounter
    ELSE \* LogConsole
         LET response == LogMessage(prefix, text)
             out == SeqPrefixed(m_seqCounter, Dump(response))
         IN  /\ m_seqCounter' = NextSeq(m_seqCounter)
             /\ pend' = [pend EXCEPT ![t] = FrameChunks(t, out, response)]
             /\ UNCHANGED m_engineLog

\* the critical section entered without taking the mutex
Lock_notTaken(t) == m_outMutex' = m_outMutex

\* the mutex taken without waiting for its holder
Lock_withoutWaiting(t) == m_outMutex' = t

\* std::lock_guard<std::mutex> lock(m_outMutex)
Lock(t) == m_outMutex = NoThread /\ m_outMutex' = t
Unlock(t) == m_outMutex' = IF m_outMutex = t THEN NoThread ELSE m_outMutex

(***************************************************************************)
(* std::cout << ...: thread t writes the next chunk of its frame.          *)
(***************************************************************************)
Write(t) ==
    /\ Alive
    /\ pend[t] # <<>>
    /\ cout' = Append(cout, Head(pend[t]))
    /\ pend' = [pend EXCEPT ![t] = Tail(pend[t])]
    /\ UNCHANGED << cin, m_seqCounter, m_exit, m_engineLog, m_outMutex, debugger,
                    pc, output, event, nEmits, cmdVars, cfgVars >>

(***************************************************************************)
(* The engine threads: the Emit...Event functions.                         *)
(***************************************************************************)
CallEmitEvent(t, name, eventBody) ==
    /\ Alive /\ Started
    /\ pc[t] = "idle"
    /\ nEmits < MaxEmits
    /\ nEmits' = nEmits + 1
    /\ event' = [event EXCEPT ![t] = << name, eventBody >>]
    /\ pc' = [pc EXCEPT ![t] = "EmitEvent"]
    /\ UNCHANGED << cin, m_seqCounter, m_exit, m_engineLog, m_outMutex, debugger,
                    cout, pend, output, cmdVars, cfgVars >>

\* EmitOutputEvent(event): the category enumerator selects the text
EmitOutputEvent(t, category, text) ==
    CallEmitEvent(t, "output",
        JObj( "category" :> JStr(CASE category = "OutputConsole" -> "console"
                                   [] category = "OutputStdOut" -> "stdout"
                                   [] category = "OutputStdErr" -> "stderr")
           @@ "output" :> JStr(text) ))

\* EmitEvent, up to the first write: lock, build the text, take the seq
EmitEvent(t) ==
    /\ Alive
    /\ pc[t] = "EmitEvent"
    /\ Lock(t)
    /\ LET response == EventMessage(event[t][1], event[t][2])
           out == SeqPrefixed(m_seqCounter, Dump(response))
       IN  /\ output' = [output EXCEPT ![t] = out]
           /\ pend' = [pend EXCEPT ![t] = FrameChunks(t, out, response)]
    /\ m_seqCounter' = NextSeq(m_seqCounter)
    /\ pc' = [pc EXCEPT ![t] = "EmitEvent_cout"]
    /\ UNCHANGED << cin, m_exit, m_engineLog, debugger, cout, event, nEmits,
                    cmdVars, cfgVars >>

\* EmitEvent: Log(LOG_EVENT, output)
EmitEvent_Log(t) ==
    /\ Alive
    /\ pc[t] = "EmitEvent_cout"
    /\ pend[t] = <<>>
    /\ Log(t, LOG_EVENT, output[t])
    /\ pc' = [pc EXCEPT ![t] = "EmitEvent_end"]
    /\ UNCHANGED << cin, m_exit, m_outMutex, debugger, cout, output, event, nEmits,
                    cmdVars, cfgVars >>

\* EmitEvent returns: the lock_guard releases m_outMutex
EmitEvent_return(t) ==
    /\ Alive
    /\ pc[t] = "EmitEvent_end"
    /\ pend[t] = <<>>
    /\ Unlock(t)
    /\ output' = [output EXCEPT ![t] = ""]
    /\ event' = [event EXCEPT ![t] = <<>>]
    /\ pc' = [pc EXCEPT ![t] = IF t = CmdThread THEN "Initialize" ELSE "idle"]
    /\ UNCHANGED << cin, m_seqCounter, m_exit, m_engineLog, debugger, cout, pend,
                    nEmits, cmdVars, cfgVars >>

(***************************************************************************)
(* Startup, before CommandLoop is entered.                                 *)
(***************************************************************************)
\* EngineLogging(path), called at most once
EngineLogging(path) ==
    /\ pc[CmdThread] = "main"
    /\ m_engineLogOutput = "LogNone"
    /\ m_engineLogOutput' = IF path = "" THEN "LogConsole" ELSE "LogFile"
    /\ UNCHANGED << cin, m_seqCounter, m_exit, m_engineLog, m_fileExec, m_execArgs,
                    m_outMutex, debugger, cout, pc, pend, output, event,
                    nEmits, cmdVars >>

\* the executable override is configured
OverrideLaunchCommand(fileExec, args) ==
    /\ pc[CmdThread] = "main"
    /\ m_fileExec = ""
    /\ m_fileExec' = fileExec
    /\ m_execArgs' = args
    /\ UNCHANGED << cin, m_seqCounter, m_exit, m_engineLogOutput, m_engineLog,
                    m_outMutex, debugger, cout, pc, pend, output, event,
                    nEmits, cmdVars >>

CommandLoop_enter ==
    /\ pc[CmdThread] = "main"
    /\ pc' = [pc EXCEPT ![CmdThread] = "while"]
    /\ UNCHANGED << cin, m_seqCounter, m_exit, m_engineLog, m_outMutex, debugger,
                    cout, pend, output, event, nEmits, cmdVars, cfgVars >>

(***************************************************************************)
(* CommandLoop.                                                            *)
(***************************************************************************)
\* while (!m_exit) { requestText = ReadData(); if (requestText.empty()) break;
\* texts: what the client may send as its next frame; "" is the end of the
\* input stream
ReadDataFrom(texts) ==
    /\ Alive
    /\ pc[CmdThread] = "while"
    /\ ~m_exit
    /\ \E text \in (IF Len(stdin) < MaxRequests THEN texts ELSE {}) \cup {""} :
          /\ requestText' = text
          /\ stdin' = IF text = "" THEN stdin ELSE Append(stdin, text)
          /\ pc' = [pc EXCEPT ![CmdThread] =
                       IF text = "" THEN "after" ELSE "LogCommand"]
    /\ UNCHANGED << cin, m_seqCounter, m_exit, m_engineLog, m_outMutex, debugger,
                    cout, pend, output, event, request, Status, body, nEmits,
                    cfgVars >>

ReadData == ReadDataFrom(SessionTexts(Len(stdin) + 1))
ReadDataAny == ReadDataFrom(DispatchTexts(Len(stdin) + 1))

\* the characters of std::cin that were not read yet
Unread == SubSeq(cin.text, cin.pos + 1, Len(cin.text))

\* while (!m_exit) { requestText = ReadData(); if (requestText.empty()) break;
\* with ReadData reading the characters of std::cin
ReadDataFromCin ==
    /\ Alive
    /\ pc[CmdThread] = "while"
    /\ ~m_exit
    /\ LET r == ReadDataOf(Unread)
       IN  /\ cin' = [cin EXCEPT !.pos = cin.pos + r.taken]
           /\ IF r.thrown
              THEN /\ pc' = [pc EXCEPT ![CmdThread] = "aborted"]
                   /\ UNCHANGED << requestText, stdin >>
              ELSE /\ requestText' = r.result
                   /\ stdin' = IF r.result = "" THEN stdin
                               ELSE Append(stdin, r.result)
                   /\ pc' = [pc EXCEPT ![CmdThread] =
                                IF r.result = "" THEN "after" ELSE "LogCommand"]
    /\ UNCHANGED << m_seqCounter, m_exit, m_engineLog, m_outMutex, debugger,
                    cout, pend, output, event, request, Status, body, nEmits,
                    cfgVars >>

\* while (!m_exit) is false
CommandLoop_exit ==
    /\ Alive
    /\ pc[CmdThread] = "while"
    /\ m_exit
    /\ pc' = [pc EXCEPT ![CmdThread] = "after"]
    /\ UNCHANGED << cin, m_seqCounter, m_exit, m_engineLog, m_outMutex, debugger,
                    cout, pend, output, event, nEmits, cmdVars, cfgVars >>

\* { lock; Log(LOG_COMMAND, requestText);
LogCommand ==
    /\ Alive
    /\ pc[CmdThread] = "LogCommand"
    /\ Lock(CmdThread)
    /\ Log(CmdThread, LOG_COMMAND, requestText)
    /\ pc' = [pc EXCEPT ![CmdThread] = "LogCommand_end"]
    /\ UNCHANGED << cin, m_exit, debugger, cout, output, event, nEmits, cmdVars,
                    cfgVars >>

\* the lock_guard of the LOG_COMMAND block living on to the end of the loop
\* body
LogCommand_unlock_keepingLock ==
    /\ Alive
    /\ pc[CmdThread] = "LogCommand_end"
    /\ pend[CmdThread] = <<>>
    /\ pc' = [pc EXCEPT ![CmdThread] = "HandleCommand"]
    /\ UNCHANGED << cin, m_seqCounter, m_exit, m_engineLog, m_outMutex,
                    debugger, cout, pend, output, event, nEmits, cmdVars,
                    cfgVars >>

\* }: the lock_guard releases m_outMutex
LogCommand_unlock ==
    /\ Alive
    /\ pc[CmdThread] = "LogCommand_end"
    /\ pend[CmdThread] = <<>>
    /\ Unlock(CmdThread)
    /\ pc' = [pc EXCEPT ![CmdThread] = "HandleCommand"]
    /\ UNCHANGED << cin, m_seqCounter, m_exit, m_engineLog, debugger, cout, pend,
                    output, event, nEmits, cmdVars, cfgVars >>

\* the exception leaves CommandLoop
Abort ==
    /\ pc' = [pc EXCEPT ![CmdThread] = "aborted"]
    /\ UNCHANGED << cin, m_seqCounter, m_exit, m_engineLog, m_outMutex, debugger,
                    cout, pend, output, event, nEmits, cmdVars, cfgVars >>

\* request.at("command") converts to std::string
CommandOk(req) == req.t = "object" /\ AtIs(req, "command", "string")

\* argIter == request.end() ? json::object() : argIter.value()
ArgumentsOf(req) ==
    IF Has(req, "arguments") THEN req.v["arguments"] ELSE EmptyObject

\* request = json::parse(requestText); command; arguments; body;
\* Status = HandleCommand(command, arguments, body)
CallHandleCommand ==
    /\ Alive
    /\ pc[CmdThread] = "HandleCommand"
    /\ IF ParseThrows(requestText) \/ ~CommandOk(parse(requestText))
       THEN Abort
       ELSE LET req == parse(requestText)
                command == req.v["command"].v
                arguments == ArgumentsOf(req)
            IN  IF command = "initialize"
                THEN \* EmitCapabilitiesEvent()
                     /\ request' = req
                     /\ requestText' = ""
                     /\ event' = [event EXCEPT ![CmdThread] =
                           << "capabilities",
                              Put(EmptyObject, "capabilities",
                                  AddCapabilitiesTo(EmptyObject)) >>]
                     /\ pc' = [pc EXCEPT ![CmdThread] = "EmitEvent"]
                     /\ UNCHANGED << cin, m_seqCounter, m_exit, m_engineLog,
                                     m_outMutex, debugger, cout, pend, output,
                                     Status, body, nEmits, stdin, cfgVars >>
                ELSE \E reply \in RepliesTo(command) :
                       LET r == HandleCommand(command, arguments, reply)
                       IN  IF r.thrown
                           THEN Abort
                           ELSE /\ request' = req
                                /\ requestText' = ""
                                /\ Status' = r.Status
                                /\ body' = r.body
                                /\ debugger' = debugger \o r.calls
                                /\ m_exit' = (m_exit \/ r.exit)
                                /\ pc' = [pc EXCEPT ![CmdThread] = "respond"]
                                /\ UNCHANGED << cin, m_seqCounter, m_engineLog,
                                                m_outMutex, cout, pend, output,
                                                event, nEmits, stdin,
                                                cfgVars >>

\* the initialize handler after EmitCapabilitiesEvent():
\* m_debugger->Initialize(); AddCapabilitiesTo(body); return S_OK
Initialize ==
    /\ Alive
    /\ pc[CmdThread] = "Initialize"
    /\ debugger' = Append(debugger, Call("Initialize", <<>>))
    /\ body' = AddCapabilitiesTo(body)
    /\ Status' = S_OK
    /\ pc' = [pc EXCEPT ![CmdThread] = "respond"]
    /\ UNCHANGED << cin, m_seqCounter, m_exit, m_engineLog, m_outMutex, cout, pend,
                    output, event, requestText, request, nEmits, stdin,
                    cfgVars >>

\* { lock; build the response, take the seq; up to the first write
Respond ==
    /\ Alive
    /\ pc[CmdThread] = "respond"
    /\ Lock(CmdThread)
    /\ IF ~Has(request, "seq")
       THEN \* request.at("seq") throws
            /\ pc' = [pc EXCEPT ![CmdThread] = "aborted"]
            /\ UNCHANGED << cin, m_seqCounter, pend, output >>
       ELSE LET response == ResponseMessage(request.v["command"].v,
                                            request.v["seq"], Status, body)
                out == SeqPrefixed(m_seqCounter, Dump(response))
            IN  /\ output' = [output EXCEPT ![CmdThread] = out]
                /\ pend' = [pend EXCEPT ![CmdThread] =
                               FrameChunks(CmdThread, out, response)]
                /\ m_seqCounter' = NextSeq(m_seqCounter)
                /\ pc' = [pc EXCEPT ![CmdThread] = "respond_cout"]
    /\ UNCHANGED << cin, m_exit, m_engineLog, debugger, cout, event, nEmits,
                    cmdVars, cfgVars >>

\* the lock_guard of the response block released before
\* Log(LOG_RESPONSE, output)
Respond_Log_afterUnlock ==
    /\ Alive
    /\ pc[CmdThread] = "respond_cout"
    /\ pend[CmdThread] = <<>>
    /\ Log(CmdThread, LOG_RESPONSE, output[CmdThread])
    /\ pc' = [pc EXCEPT ![CmdThread] = "respond_end"]
    /\ m_outMutex' = NoThread
    /\ UNCHANGED << cin, m_exit, debugger, cout, output, event, nEmits,
                    cmdVars, cfgVars >>

\* Log(LOG_RESPONSE, output)
Respond_Log ==
    /\ Alive
    /\ pc[CmdThread] = "respond_cout"
    /\ pend[CmdThread] = <<>>
    /\ Log(CmdThread, LOG_RESPONSE, output[CmdThread])
    /\ pc' = [pc EXCEPT ![CmdThread] = "respond_end"]
    /\ UNCHANGED << cin, m_exit, m_outMutex, debugger, cout, output, event, nEmits,
                    cmdVars, cfgVars >>

\* } }: the lock_guard releases m_outMutex; back to while (!m_exit)
Respond_unlock ==
    /\ Alive
    /\ pc[CmdThread] = "respond_end"
    /\ pend[CmdThread] = <<>>
    /\ Unlock(CmdThread)
    /\ output' = [output EXCEPT ![CmdThread] = ""]
    /\ request' = JNull
    /\ Status' = S_OK
    /\ body' = EmptyObject
    /\ pc' = [pc EXCEPT ![CmdThread] = "while"]
    /\ UNCHANGED << cin, m_seqCounter, m_exit, m_engineLog, debugger, cout, pend,
                    event, requestText, nEmits, stdin, cfgVars >>

\* Disconnect called after the loop whatever m_exit is
CommandLoop_return_unguarded ==
    /\ Alive
    /\ pc[CmdThread] = "after"
    /\ debugger' = Append(debugger, Call("Disconnect", <<>>))
    /\ pc' = [pc EXCEPT ![CmdThread] = "done"]
    /\ UNCHANGED << cin, m_seqCounter, m_exit, m_engineLog, m_outMutex, cout, pend,
                    output, event, nEmits, cmdVars, cfgVars >>

\* after the loop: if (!m_exit) m_debugger->Disconnect();
CommandLoop_return ==
    /\ Alive
    /\ pc[CmdThread] = "after"
    /\ debugger' = IF ~m_exit THEN Append(debugger, Call("Disconnect", <<>>))
                   ELSE debugger
    /\ pc' = [pc EXCEPT ![CmdThread] = "done"]
    /\ UNCHANGED << cin, m_seqCounter, m_exit, m_engineLog, m_outMutex, cout, pend,
                    output, event, nEmits, cmdVars, cfgVars >>

(***************************************************************************)
(* The specifications.                                                     *)
(***************************************************************************)
\* the steps of the command thread in its own code
CmdSteps ==
    \/ CommandLoop_enter
    \/ CommandLoop_exit
    \/ LogCommand
    \/ LogCommand_unlock
    \/ CallHandleCommand
    \/ Initialize
    \/ Respond
    \/ Respond_Log
    \/ Respond_unlock
    \/ CommandLoop_return
    \/ EmitEvent(CmdThread)
    \/ EmitEvent_Log(CmdThread)
    \/ EmitEvent_return(CmdThread)
    \/ Write(CmdThread)

\* the command loop and what surrounds it
CmdNext ==
    \/ \E path \in {"", "log"} : EngineLogging(path)
    \/ CmdSteps

\* the engine threads
EngineNext ==
    \E t \in EngineThreads :
        \/ \E category \in {"OutputConsole"} :
               EmitOutputEvent(t, category, "hello\n")
        \/ EmitEvent(t)
        \/ EmitEvent_Log(t)
        \/ EmitEvent_return(t)
        \/ Write(t)

\* a debugging session: the command loop with the engine threads
Next == ReadData \/ CmdNext \/ EngineNext
Spec == Init /\ [][Next]_vars

\* one client driving every handler, the engine threads silent
NextDispatch ==
    \/ ReadDataAny
    \/ \E args \in {<< "--version" >>} : OverrideLaunchCommand("dotnet", args)
    \/ CmdNext
SpecDispatch == Init /\ [][NextDispatch]_vars

\* one client sending one request, drawn from HandlerInputs
HandlerTexts == { Dump(o) : o \in Requests(HandlerInputs, 1) }
NextHandlers ==
    \/ ReadDataFrom(IF Len(stdin) = 0 THEN HandlerTexts ELSE {})
    \/ \E args \in {<< "app.dll" >>} : OverrideLaunchCommand("corerun", args)
    \/ CmdSteps
SpecHandlers == Init /\ [][NextHandlers]_vars

\* the bodies of the frames a client sends: three requests, and no byte
TransportInputs ==
    { << "initialize", NoArguments >>, << "threads", NoArguments >>,
      << "disconnect", NoArguments >> }
TransportBodies == { Dump(o) : o \in Requests(TransportInputs, 1) } \cup {""}

\* a frame: the header with the length of the body, alone or followed by
\* another header field, and the body
Frames(text) ==
    { CONTENT_LENGTH \o ToString(Len(text)) \o fields \o TWO_CRLF \o text :
        fields \in { "", "\r\nContent-Type: json" } }
\* header blocks without Content-Length
BlocksWithoutLength == { "Content-Type: json" \o TWO_CRLF, TWO_CRLF }
\* a frame cut short, and a header whose Content-Length is no number
OtherBlocks ==
    { CONTENT_LENGTH \o "9" \o TWO_CRLF \o "{}",
      CONTENT_LENGTH \o "x" \o TWO_CRLF }
Blocks ==
    UNION { Frames(text) : text \in TransportBodies }
    \cup BlocksWithoutLength \cup OtherBlocks

RECURSIVE Concatenation(_)
Concatenation(blocks) ==
    IF blocks = << >> THEN ""
    ELSE Head(blocks) \o Concatenation(Tail(blocks))
\* what a client may send before it closes the stream: at most MaxBlocks
\* blocks
Streams ==
    { Concatenation(blocks) :
        blocks \in UNION { [1..n -> Blocks] : n \in 0..MaxBlocks } }

\* the command loop reading the characters a client sent
InitTransport ==
    /\ m_seqCounter = InitialSeq
    /\ m_exit = FALSE
    /\ m_engineLogOutput = "LogNone"
    /\ m_engineLog = <<>>
    /\ m_fileExec = ""
    /\ m_execArgs = <<>>
    /\ m_outMutex = NoThread
    /\ debugger = <<>>
    /\ cout = <<>>
    /\ pc = [t \in Threads |-> IF t = CmdThread THEN "main" ELSE "idle"]
    /\ pend = [t \in Threads |-> <<>>]
    /\ output = [t \in Threads |-> ""]
    /\ event = [t \in Threads |-> <<>>]
    /\ requestText = ""
    /\ request = JNull
    /\ Status = S_OK
    /\ body = EmptyObject
    /\ nEmits = 0
    /\ stdin = <<>>
    /\ cin \in [text : Streams, pos : {0}]
NextTransport == ReadDataFromCin \/ CmdSteps
SpecTransport == InitTransport /\ [][NextTransport]_vars

(***************************************************************************)
(* Reading the output stream back.                                         *)
(***************************************************************************)
IsBodyChunk(c) == c.msg.t # "null"
\* the body chunks on std::cout, in write order
Bodies == SelectSeq(cout, IsBodyChunk)

\* the written text starts with {"seq":<id>,
StartsWithSeq(text, id) ==
    LET prefix == "{\"seq\":" \o ToString(id) \o ","
    IN  SubSeq(text, 1, Len(prefix)) = prefix

IsResponse(c) == IsBodyChunk(c) /\ c.msg.v["type"].v = "response"
IsEvent(c) == IsBodyChunk(c) /\ c.msg.v["type"].v = "event"
Responses == SelectSeq(cout, IsResponse)

\* the body chunks of complete frames written by the engine threads
EngineFrames == SelectSeq(cout, LAMBDA c : IsBodyChunk(c) /\ c.by \in EngineThreads)

(***************************************************************************)
(* C1: the frames on the output stream carry seq 1, 2, 3, ... in write     *)
(* order: the k-th frame written carries seq k, whatever wrote it: a       *)
(* response, an event of any thread or a log event of console mode.        *)
(***************************************************************************)
C1_SeqIsWriteOrder ==
    \A k \in 1..Len(Bodies) : StartsWithSeq(Bodies[k].text, k)

\* console mode, with a response, an engine event and their mirrors written
C1_Witness ==
    /\ m_engineLogOutput = "LogConsole"
    /\ Len(Bodies) >= 5
    /\ \E k \in 1..Len(Bodies) : IsResponse(Bodies[k])
    /\ \E k \in 1..Len(Bodies) : Bodies[k].by \in EngineThreads

(***************************************************************************)
(* C2: the output stream is a concatenation of whole frames: a header      *)
(* "Content-Length: <n>\r\n\r\n" is followed by the body of the same       *)
(* writer, n is the length of the body text, which is one dumped message   *)
(* behind its seq prefix, and only the last frame may be unfinished, its   *)
(* writer being the holder of m_outMutex.                                  *)
(***************************************************************************)
WholeFrames ==
    /\ \A i \in 1..Len(cout) :
         IF i % 2 = 1
         THEN /\ ~IsBodyChunk(cout[i])
              /\ IF i < Len(cout)
                 THEN /\ IsBodyChunk(cout[i + 1])
                      /\ cout[i + 1].by = cout[i].by
                      /\ cout[i].text =
                             "Content-Length: "
                             \o ToString(Len(cout[i + 1].text)) \o "\r\n\r\n"
                 ELSE /\ m_outMutex = cout[i].by
                      /\ Len(pend[cout[i].by]) = 1
                      /\ IsBodyChunk(pend[cout[i].by][1])
         ELSE IsBodyChunk(cout[i])
    \* The body is one dumped message behind its seq prefix.  Chunks are only
    \* ever appended, so it is enough that each body is right when it is the
    \* last chunk.
    /\ (Len(cout) > 0 /\ Len(cout) % 2 = 0) =>
         LET last == cout[Len(cout)]
             dumped == Dump(last.msg)
         IN  \E id \in 1..Len(cout) :
                last.text = "{\"seq\":" \o ToString(id) \o ","
                            \o SubSeq(dumped, 2, Len(dumped))

EnginesIdle == \A t \in EngineThreads : pc[t] = "idle"

\* C2 as claimed: whole frames, and k emits produce exactly k frames
C2_Original ==
    /\ WholeFrames
    /\ EnginesIdle => Len(EngineFrames) = nEmits

\* C2 as amended: whole frames, and k emits produce exactly k frames unless
\* the log is relayed to the console, where they produce 2k
C2_WholeFrames ==
    /\ WholeFrames
    /\ EnginesIdle =>
         Len(EngineFrames) =
             IF m_engineLogOutput = "LogConsole" THEN 2 * nEmits ELSE nEmits

\* both engine threads have emitted, around a response of the command loop
C2_Witness ==
    /\ EnginesIdle
    /\ nEmits = 2
    /\ \E t1, t2 \in EngineThreads :
         /\ t1 # t2
         /\ \E i, j, k \in 1..Len(Bodies) :
              /\ i < j /\ j < k
              /\ Bodies[i].by = t1 /\ IsResponse(Bodies[j]) /\ Bodies[k].by = t2

(***************************************************************************)
(* Reading the requests back.                                              *)
(***************************************************************************)
\* the text is a request: an object with a command name and a seq
IsRequest(text) ==
    /\ ~ParseThrows(text)
    /\ CommandOk(parse(text))
    /\ Has(parse(text), "seq")
CommandOf(text) == parse(text).v["command"].v

\* the command thread works on no request: it waits for one, has left the
\* loop, or the process is gone
Settled == pc[CmdThread] \in {"main", "while", "after", "done", "aborted"}

\* the k-th response answers the k-th frame read
Answers(k) ==
    /\ IsRequest(stdin[k])
    /\ Responses[k].msg.v["command"] = JStr(CommandOf(stdin[k]))
    /\ Responses[k].msg.v["request_seq"] = parse(stdin[k]).v["seq"]

(***************************************************************************)
(* C3: commands are serialized and never dropped.  The k-th response       *)
(* carries the command name and the seq of the k-th request read, a        *)
(* request is read only when every earlier one has its response, and a     *)
(* command thread that works on no request has answered every request it   *)
(* read.                                                                   *)
(***************************************************************************)
C3_Original ==
    /\ Len(Responses) <= Len(stdin)
    /\ Len(stdin) <= Len(Responses) + 1
    /\ \A k \in 1..Len(Responses) : Answers(k)
    /\ Settled => Len(Responses) = Len(stdin)

(***************************************************************************)
(* C4: a handler failure is never fatal.  As long as the client sends      *)
(* requests with a known command, whatever their arguments, the command    *)
(* loop is alive, and every such request it is done with has a response    *)
(* with a boolean success, and a message when success is false.            *)
(***************************************************************************)
KnownRequest(text) == IsRequest(text) /\ CommandOf(text) \in Commands

StructuredResponse(k) ==
    /\ k <= Len(Responses)
    /\ Answers(k)
    /\ LET m == Responses[k].msg
       IN  /\ m.v["success"].t = "boolean"
           /\ ~m.v["success"].v => AtIs(m, "message", "string")

C4_Original ==
    (\A k \in 1..Len(stdin) : KnownRequest(stdin[k])) =>
        /\ Alive
        /\ \A k \in 1..Len(stdin) :
             (k < Len(stdin) \/ Settled) => StructuredResponse(k)

(***************************************************************************)
(* Reading the responses back.                                             *)
(***************************************************************************)
\* part occurs in text
Contains(text, part) ==
    \E i \in 1..(Len(text) - Len(part) + 1) :
        SubSeq(text, i, i + Len(part) - 1) = part

\* the command thread leaves the call of HandleCommand for a request whose
\* command name is not in the dispatch table
UnknownCommandStep ==
    /\ pc[CmdThread] = "HandleCommand"
    /\ pc'[CmdThread] # "HandleCommand"
    /\ IsRequest(requestText)
    /\ CommandOf(requestText) \notin Commands

\* the response to a request with an unknown command has been written and
\* the command thread is back at the head of the loop
UnknownCommandAnswered ==
    /\ pc[CmdThread] = "while"
    /\ Len(stdin) > 0
    /\ IsRequest(stdin[Len(stdin)])
    /\ CommandOf(stdin[Len(stdin)]) \notin Commands

(***************************************************************************)
(* C5: a request with an unknown command gets the status NotImplemented    *)
(* (0x80004001) and no engine operation is invoked for it; its response    *)
(* has success:false, no body, and a message that contains the command     *)
(* name and the status in hexadecimal; the command thread is then back at  *)
(* the head of the loop with the exit flag clear, where it reads the next  *)
(* request.                                                                *)
(***************************************************************************)
C5_UnknownCommand ==
    /\ [][UnknownCommandStep =>
             /\ Status' = -2147467263
             /\ debugger' = debugger
             /\ m_exit' = m_exit
             /\ pc'[CmdThread] = "respond"]_vars
    /\ [](\A k \in 1..Len(Responses) :
             LET m == Responses[k].msg
             IN  m.v["command"].v \notin Commands =>
                    /\ m.v["success"] = JBool(FALSE)
                    /\ ~Has(m, "body")
                    /\ AtIs(m, "message", "string")
                    /\ Contains(m.v["message"].v, m.v["command"].v)
                    /\ Contains(m.v["message"].v, "0x80004001"))
    /\ [](UnknownCommandAnswered =>
             /\ Len(Responses) = Len(stdin)
             /\ ~m_exit)

\* an unknown command was answered, and so was the request after it
C5_Witness ==
    /\ Len(Responses) = 2
    /\ Responses[1].msg.v["command"] = JStr("frobnicate")
    /\ Responses[1].msg.v["message"] =
           JStr("Failed command 'frobnicate' : 0x80004001")
    /\ Responses[2].msg.v["command"] = JStr("evaluate")

\* the command thread builds the response and takes its seq
RespondStep ==
    /\ pc[CmdThread] = "respond"
    /\ pc'[CmdThread] = "respond_cout"

\* the failure statuses of this model as the client reads them
StatusText(status) ==
    CASE status = -2147467259 -> "0x80004005"
      [] status = -2147467263 -> "0x80004001"
      [] status = -2147024809 -> "0x80070057"

(***************************************************************************)
(* C6: a response carries exactly one of body and message.  Built from a   *)
(* success status it has success:true, the handler's body and no message;  *)
(* built from a failure status it has success:false, no body, and as       *)
(* message the "message" field of the handler's body if there is one, and  *)
(* otherwise "Failed command '<command>' : 0x<status in hexadecimal>".     *)
(***************************************************************************)
C6_BodyOrMessage ==
    /\ [][RespondStep =>
             LET m == pend'[CmdThread][2].msg
                 command == request.v["command"].v
             IN  IF Status >= 0
                 THEN /\ m.v["success"] = JBool(TRUE)
                      /\ Has(m, "body") /\ m.v["body"] = body
                      /\ ~Has(m, "message")
                 ELSE /\ m.v["success"] = JBool(FALSE)
                      /\ ~Has(m, "body")
                      /\ Has(m, "message")
                      /\ m.v["message"] =
                            IF Has(body, "message") THEN body.v["message"]
                            ELSE JStr("Failed command '" \o command \o "' : "
                                      \o StatusText(Status))]_vars
    /\ [](\A k \in 1..Len(Responses) :
             LET m == Responses[k].msg
             IN  /\ Has(m, "body") # Has(m, "message")
                 /\ m.v["success"].v = Has(m, "body"))

\* a failed evaluate answered with the engine's text, and a failed threads
\* answered with the synthesized message
C6_Witness ==
    /\ Len(Responses) = 2
    /\ Responses[1].msg.v["command"] = JStr("evaluate")
    /\ Responses[1].msg.v["message"] = JStr(EngineOutput)
    /\ Responses[2].msg.v["command"] = JStr("threads")
    /\ Responses[2].msg.v["message"] =
           JStr("Failed command 'threads' : 0x80004005")

(***************************************************************************)
(* Reading an initialize exchange back.                                    *)
(***************************************************************************)
\* the capabilities events and the initialize responses on std::cout, whole
CapabilitiesEvents ==
    SelectSeq(cout, LAMBDA c : IsEvent(c) /\ c.msg.v["event"] = JStr("capabilities"))
InitializeResponses ==
    SelectSeq(cout, LAMBDA c : IsResponse(c) /\ c.msg.v["command"] = JStr("initialize"))
\* the calls of m_debugger->Initialize() and the initialize requests read
InitializeCalls == Len(SelectSeq(debugger, LAMBDA c : c.op = "Initialize"))
InitializeRequests ==
    Len(SelectSeq(stdin, LAMBDA text : CommandOf(text) = "initialize"))

\* the place of a frame among the bodies on std::cout (no two are equal:
\* each carries its own seq)
PlaceOf(frame) == CHOOSE i \in 1..Len(Bodies) : Bodies[i] = frame

FiveCapabilities ==
    [t |-> "object",
     v |-> [key \in {"supportsConfigurationDoneRequest",
                     "supportsFunctionBreakpoints",
                     "supportsConditionalBreakpoints",
                     "supportTerminateDebuggee",
                     "supportsExceptionInfoRequest"} |-> [t |-> "boolean", v |-> TRUE]]]

(***************************************************************************)
(* C7: for every initialize request the capabilities event is on the       *)
(* output stream, whole, before Initialize is called on the engine, and    *)
(* Initialize is called before the initialize response is written: the     *)
(* k-th capabilities event precedes the k-th initialize response; the      *)
(* event's body.capabilities and the response's body are the same five     *)
(* capabilities, all true.                                                 *)
(***************************************************************************)
C7_CapabilitiesFirst ==
    /\ Len(InitializeResponses) <= InitializeCalls
    /\ InitializeCalls <= Len(CapabilitiesEvents)
    /\ Len(CapabilitiesEvents) <= InitializeRequests
    /\ Settled => Len(InitializeResponses) = InitializeRequests
    /\ \A k \in 1..Len(InitializeResponses) :
          /\ PlaceOf(CapabilitiesEvents[k]) < PlaceOf(InitializeResponses[k])
          /\ InitializeResponses[k].msg.v["success"] = JBool(TRUE)
          /\ InitializeResponses[k].msg.v["body"] = FiveCapabilities
    /\ \A k \in 1..Len(CapabilitiesEvents) :
          /\ CapabilitiesEvents[k].by = CmdThread
          /\ DOMAIN CapabilitiesEvents[k].msg.v["body"].v = {"capabilities"}
          /\ CapabilitiesEvents[k].msg.v["body"].v["capabilities"] = FiveCapabilities

\* two initialize requests answered, with events of the engine in between
C7_Witness ==
    /\ Len(InitializeResponses) = 2
    /\ InitializeCalls = 2
    /\ Len(EngineFrames) > 0
    /\ pc[CmdThread] = "done"

\* the client's first frame is an initialize request with seq 1, and no
\* engine thread has emitted an event
FreshExchange ==
    /\ Len(stdin) >= 1
    /\ CommandOf(stdin[1]) = "initialize"
    /\ parse(stdin[1]).v["seq"] = JNum(1)
    /\ nEmits = 0

\* C8 as claimed: the capabilities event carries seq 2 and the initialize
\* response seq 3
C8_Original ==
    FreshExchange =>
        /\ Len(CapabilitiesEvents) >= 1 =>
              StartsWithSeq(CapabilitiesEvents[1].text, 2)
        /\ Len(InitializeResponses) >= 1 =>
              StartsWithSeq(InitializeResponses[1].text, 3)

(***************************************************************************)
(* C8, as amended: on a freshly started engine whose first request is      *)
(* initialize, and while no engine thread emits an event, the capabilities *)
(* event carries seq 1 and the initialize response seq 2: the engine       *)
(* numbers the frames it writes from 1, whatever seq the client's request  *)
(* carries.  When the log is relayed to the console they carry seq 2 and   *)
(* seq 4, seq 1 and seq 3 going to the log events that mirror the request  *)
(* and the capabilities event.                                             *)
(***************************************************************************)
C8_ServerSeq ==
    FreshExchange =>
        LET console == m_engineLogOutput = "LogConsole"
        IN  /\ Len(CapabilitiesEvents) >= 1 =>
                  StartsWithSeq(CapabilitiesEvents[1].text,
                                IF console THEN 2 ELSE 1)
            /\ Len(InitializeResponses) >= 1 =>
                  StartsWithSeq(InitializeResponses[1].text,
                                IF console THEN 4 ELSE 2)

\* the initialize response is on the stream, logging is off
C8_Witness ==
    /\ FreshExchange
    /\ m_engineLogOutput = "LogNone"
    /\ Len(InitializeResponses) = 1
    /\ Len(Bodies) = 2

(***************************************************************************)
(* Reading the end of a session back.                                      *)
(***************************************************************************)
\* the command thread leaves the call of HandleCommand for a disconnect
\* request
DisconnectStep ==
    /\ pc[CmdThread] = "HandleCommand"
    /\ pc'[CmdThread] # "HandleCommand"
    /\ IsRequest(requestText)
    /\ CommandOf(requestText) = "disconnect"

\* the action a disconnect request asks for, read off its text
ActionAskedFor(text) ==
    IF Contains(text, "\"terminateDebuggee\":true") THEN "DisconnectTerminate"
    ELSE IF Contains(text, "\"terminateDebuggee\":false") THEN "DisconnectDetach"
    ELSE "DisconnectDefault"

DisconnectCalls == SelectSeq(debugger, LAMBDA c : c.op = "Disconnect")
DisconnectRequests ==
    SelectSeq(stdin, LAMBDA text : CommandOf(text) = "disconnect")

(***************************************************************************)
(* C9: the disconnect handler calls Disconnect on the engine with Default  *)
(* when terminateDebuggee is absent, Terminate when it is true and Detach  *)
(* when it is false, sets m_exit and succeeds; m_exit is never cleared;    *)
(* once it is set no request is read, the command thread leaves the loop   *)
(* from its head, and when it is done the last response on the stream is   *)
(* the successful response to the disconnect request.                      *)
(***************************************************************************)
C9_Disconnect ==
    /\ [][DisconnectStep =>
             /\ debugger' = Append(debugger,
                    [op |-> "Disconnect",
                     args |-> << ActionAskedFor(requestText) >>])
             /\ m_exit'
             /\ Status' = 0
             /\ pc'[CmdThread] = "respond"]_vars
    /\ [][m_exit => m_exit']_vars
    /\ [][m_exit => stdin' = stdin]_vars
    /\ [][(m_exit /\ pc[CmdThread] = "while" /\ pc'[CmdThread] # "while") =>
             pc'[CmdThread] = "after"]_vars
    /\ [](m_exit =>
             /\ Len(stdin) > 0
             /\ CommandOf(stdin[Len(stdin)]) = "disconnect")
    /\ []((m_exit /\ Settled) =>
             /\ Len(Responses) = Len(stdin)
             /\ Responses[Len(stdin)].msg.v["command"] = JStr("disconnect")
             /\ Responses[Len(stdin)].msg.v["success"] = JBool(TRUE))

\* a session ended by disconnect with terminateDebuggee false, after an
\* initialize
C9_Witness ==
    /\ pc[CmdThread] = "done"
    /\ m_exit
    /\ Len(stdin) = 2
    /\ CommandOf(stdin[1]) = "initialize"
    /\ debugger[Len(debugger)] =
           [op |-> "Disconnect", args |-> << "DisconnectDetach" >>]

(***************************************************************************)
(* C10: when CommandLoop has returned the engine has received exactly one  *)
(* Disconnect call: the handler's, with the action asked for, when the     *)
(* loop ended on a disconnect request, and otherwise the one made after    *)
(* the loop, without an action, as the last call on the engine.  Before    *)
(* that it has received none but the handler's.                            *)
(***************************************************************************)
C10_OneDisconnect ==
    /\ Len(DisconnectCalls) <= 1
    /\ pc[CmdThread] # "done" =>
          (Len(DisconnectCalls) = 1 <=> m_exit)
    /\ pc[CmdThread] = "done" =>
          /\ Len(DisconnectCalls) = 1
          /\ IF Len(DisconnectRequests) > 0
             THEN /\ m_exit
                  /\ DisconnectCalls[1].args =
                        << ActionAskedFor(DisconnectRequests[1]) >>
             ELSE /\ ~m_exit
                  /\ DisconnectCalls[1].args = << >>
                  /\ debugger[Len(debugger)] = DisconnectCalls[1]

\* the input ended after an initialize request, and no disconnect came
C10_Witness ==
    /\ pc[CmdThread] = "done"
    /\ ~m_exit
    /\ Len(stdin) = 1
    /\ CommandOf(stdin[1]) = "initialize"
    /\ Len(DisconnectCalls) = 1

(***************************************************************************)
(* The session under scheduling.  A thread that can take a step of its own *)
(* code is scheduled eventually; nothing obliges the client to send a      *)
(* frame or the engine to raise an event.                                  *)
(***************************************************************************)
\* the steps of engine thread t inside EmitEvent
EmitEventSteps(t) ==
    EmitEvent(t) \/ EmitEvent_Log(t) \/ EmitEvent_return(t) \/ Write(t)

\* the state after construction and EngineLogging("")
InitConsole ==
    /\ m_seqCounter = InitialSeq
    /\ m_exit = FALSE
    /\ m_engineLogOutput = "LogConsole"
    /\ m_engineLog = <<>>
    /\ m_fileExec = ""
    /\ m_execArgs = <<>>
    /\ m_outMutex = NoThread
    /\ debugger = <<>>
    /\ cout = <<>>
    /\ pc = [t \in Threads |-> IF t = CmdThread THEN "main" ELSE "idle"]
    /\ pend = [t \in Threads |-> <<>>]
    /\ output = [t \in Threads |-> ""]
    /\ event = [t \in Threads |-> <<>>]
    /\ requestText = ""
    /\ request = JNull
    /\ Status = S_OK
    /\ body = EmptyObject
    /\ nEmits = 0
    /\ stdin = <<>>
    /\ cin = [text |-> "", pos |-> 0]

\* the client of the console session sends initialize or disconnect
ConsoleTexts(k) ==
    { Dump(RequestObject(k, command, NoArguments)) :
        command \in {"initialize", "disconnect"} }

NextConsole ==
    \/ ReadDataFrom(ConsoleTexts(Len(stdin) + 1))
    \/ CmdSteps
    \/ EngineNext

SpecScheduled ==
    /\ InitConsole /\ [][NextConsole]_vars
    /\ WF_vars(CmdSteps)
    /\ \A t \in EngineThreads : WF_vars(EmitEventSteps(t))

\* thread t is inside a block guarded by m_outMutex, after Log was entered
InLog(t) ==
    pc[t] \in {"LogCommand_end", "EmitEvent_end", "respond_end"}
\* thread t is about to enter Log
BeforeLog(t) == pc[t] \in {"EmitEvent_cout", "respond_cout"}

(***************************************************************************)
(* C11: with the log relayed to the console no thread keeps m_outMutex     *)
(* forever.  A thread that is about to enter Log, or has entered it, holds *)
(* m_outMutex; entering Log leaves the holder as it is; and a thread that  *)
(* holds m_outMutex eventually releases it (or the process has ended).     *)
(***************************************************************************)
C11_LockReleased ==
    /\ [](\A t \in Threads : (BeforeLog(t) \/ InLog(t)) => m_outMutex = t)
    /\ [][\A t \in Threads :
             (BeforeLog(t) /\ InLog(t)') => m_outMutex' = m_outMutex]_vars
    /\ \A t \in Threads :
          (m_engineLogOutput = "LogConsole" /\ m_outMutex = t)
              ~> (m_outMutex # t \/ ~Alive)

\* console mode: an engine thread has the mirror of its event written and
\* still holds the mutex
C11_Witness ==
    /\ m_engineLogOutput = "LogConsole"
    /\ \E t \in EngineThreads :
          /\ pc[t] = "EmitEvent_end"
          /\ pend[t] = <<>>
          /\ m_outMutex = t
          /\ Len(EngineFrames) >= 2

(***************************************************************************)
(* Reading the log back.                                                   *)
(***************************************************************************)
StartsWith(text, prefix) ==
    Len(text) >= Len(prefix) /\ SubSeq(text, 1, Len(prefix)) = prefix

IsLogLine(text) ==
    \/ StartsWith(text, "-> (C) ")
    \/ StartsWith(text, "<- (R) ")
    \/ StartsWith(text, "<- (E) ")

\* a frame on std::cout that mirrors a logged message: an output event of
\* category console whose output is a log line
IsMirror(c) ==
    /\ IsEvent(c)
    /\ c.msg.v["event"] = JStr("output")
    /\ c.msg.v["body"].v["category"] = JStr("console")
    /\ IsLogLine(c.msg.v["body"].v["output"].v)
Mirrors == SelectSeq(cout, IsMirror)

\* the events on std::cout that are no mirrors
PlainEvents == SelectSeq(cout, LAMBDA c : IsEvent(c) /\ ~IsMirror(c))

\* the lines logged so far, without the end of line: in the file, or in
\* the mirrors on std::cout
Logged ==
    IF m_engineLogOutput = "LogConsole"
    THEN [k \in 1..Len(Mirrors) |->
            LET line == Mirrors[k].msg.v["body"].v["output"].v
            IN  IF line = "" THEN "" ELSE SubSeq(line, 1, Len(line) - 1)]
    ELSE m_engineLog
LoggedWith(prefix) == SelectSeq(Logged, LAMBDA line : StartsWith(line, prefix))

\* thread t enters Log
LogStep(t) ==
    \/ BeforeLog(t) /\ InLog(t)'
    \/ t = CmdThread /\ pc[t] = "LogCommand" /\ pc'[t] = "LogCommand_end"

\* no thread is inside EmitEvent
NoEmitInFlight ==
    \A t \in Threads : pc[t] \notin {"EmitEvent_cout", "EmitEvent_end"}

(***************************************************************************)
(* C12: with logging enabled the k-th line logged with '-> (C) ' is the    *)
(* k-th request read, and it is logged before the request is dispatched;   *)
(* the k-th line logged with '<- (R) ' is the k-th response written; the   *)
(* k-th line logged with '<- (E) ' is the k-th event written that is no    *)
(* mirror; there are no other lines, so M logged messages make M lines.    *)
(* In console mode each line ends with a line feed and is the output of    *)
(* one output event of category console; otherwise no such event is        *)
(* written.  With logging disabled nothing is logged and entering Log      *)
(* changes neither the seq counter nor the output.                         *)
(***************************************************************************)
C12_Mirrors ==
    /\ [](LET requests == LoggedWith("-> (C) ")
              responses == LoggedWith("<- (R) ")
              events == LoggedWith("<- (E) ")
          IN  IF m_engineLogOutput = "LogNone"
              THEN Logged = <<>> /\ Mirrors = <<>>
              ELSE /\ \A k \in 1..Len(requests) :
                         requests[k] = "-> (C) " \o stdin[k]
                   /\ Len(requests) <= Len(stdin)
                   /\ pc[CmdThread] \notin {"LogCommand", "LogCommand_end"} =>
                         Len(requests) = Len(stdin)
                   /\ \A k \in 1..Len(responses) :
                         responses[k] = "<- (R) " \o Responses[k].text
                   /\ Len(responses) <= Len(Responses)
                   /\ pc[CmdThread] \notin {"respond_cout", "respond_end"} =>
                         Len(responses) = Len(Responses)
                   /\ \A k \in 1..Len(events) :
                         events[k] = "<- (E) " \o PlainEvents[k].text
                   /\ Len(events) <= Len(PlainEvents)
                   /\ NoEmitInFlight => Len(events) = Len(PlainEvents)
                   /\ Len(Logged) =
                         Len(requests) + Len(responses) + Len(events)
                   /\ \A k \in 1..Len(Mirrors) :
                         LET line == Mirrors[k].msg.v["body"].v["output"].v
                         IN  SubSeq(line, Len(line), Len(line)) = "\n"
                   /\ m_engineLogOutput = "LogFile" => Mirrors = <<>>)
    /\ [][\A t \in Threads :
             (LogStep(t) /\ m_engineLogOutput = "LogNone") =>
                 /\ m_seqCounter' = m_seqCounter
                 /\ cout' = cout
                 /\ pend'[t] = <<>>
                 /\ m_engineLog' = m_engineLog]_vars

\* console mode: a request, its response, the capabilities event and an
\* event of the engine are mirrored, and nothing is in flight
C12_Witness ==
    /\ m_engineLogOutput = "LogConsole"
    /\ pc[CmdThread] = "while"
    /\ NoEmitInFlight
    /\ Len(LoggedWith("-> (C) ")) = 1
    /\ Len(LoggedWith("<- (R) ")) = 1
    /\ Len(LoggedWith("<- (E) ")) = 2
    /\ Len(Mirrors) = 4
    /\ Len(EngineFrames) = 2

----------------------------------------------------------------------------
\* setExceptionBreakpoints

\* the step in which HandleCommand handles a request for the given command
HandlerStep(command) ==
    /\ pc[CmdThread] = "HandleCommand"
    /\ pc'[CmdThread] = "respond"
    /\ request'.v["command"] = JStr(command)

\* a request for the given command has been handled and waits for its
\* response
Handled(command) ==
    /\ pc[CmdThread] = "respond"
    /\ request.v["command"] = JStr(command)

\* the filter keywords of the request in hand
FiltersOf(req) ==
    LET filters == req.v["arguments"].v["filters"].v
    IN  [i \in 1..Len(filters) |-> filters[i].v]

\* the place of the last "never" in a filter list, 0 when there is none
LastNever(words) ==
    LET places == { i \in 1..Len(words) : words[i] = "never" }
    IN  IF places = {} THEN 0
        ELSE CHOOSE i \in places : \A j \in places : j <= i

\* the mode a filter list asks for: what the keywords after its last "never"
\* set
ExpectedMode(words) ==
    LET after == { words[i] : i \in (LastNever(words) + 1)..Len(words) }
    IN  (IF after \cap {"all", "always"} # {} THEN {"All"} ELSE {})
        \cup (IF after \cap {"userUnhandled", "user-unhandled"} # {}
              THEN {"UserUnhandled"} ELSE {})

(***************************************************************************)
(* C13: setExceptionBreakpoints folds the filter list in order from the    *)
(* empty mode: "all" or "always" sets All, either spelling of              *)
(* user-unhandled sets UserUnhandled, "never" clears what was set, and any *)
(* other keyword changes nothing, so that the mode is the one the keywords *)
(* after the last "never" set (["always"] gives All, ["always","never"]    *)
(* gives Never, ["never","always"] gives All).  The handler installs that  *)
(* mode by exactly one InsertExceptionBreakpoint call with scope "*", and  *)
(* answers with the body supportsExceptionOptions = false.                 *)
(***************************************************************************)
C13_FoldFilters ==
    /\ [][HandlerStep("setExceptionBreakpoints") =>
             /\ Len(debugger') = Len(debugger) + 1
             /\ LET call == debugger'[Len(debugger')]
                IN  /\ call.op = "InsertExceptionBreakpoint"
                    /\ call.args[2] = "*"
                    /\ ModeAfter(DefaultMode, call.args[1]) =
                          ExpectedMode(FiltersOf(request'))
             /\ Status' = 0
             /\ body' = JObj("supportsExceptionOptions" :> JBool(FALSE))]_vars
    /\ [](Handled("setExceptionBreakpoints") =>
             LET mode == ModeAfter(DefaultMode,
                                   debugger[Len(debugger)].args[1])
                 words == FiltersOf(request)
             IN  /\ words = << "always" >> => mode = {"All"}
                 /\ words = << "always", "never" >> => mode = {}
                 /\ words = << "never", "always" >> => mode = {"All"}
                 /\ words = << "unhandled", "bogus" >> => mode = {}
                 /\ words = << "user-unhandled" >> => mode = {"UserUnhandled"}
                 /\ words = << "userUnhandled", "all" >> =>
                       mode = {"All", "UserUnhandled"})

\* the filters "always", "never", "userUnhandled" were folded into the mode
\* UserUnhandled and installed
C13_Witness ==
    /\ Handled("setExceptionBreakpoints")
    /\ FiltersOf(request) = << "always", "never", "userUnhandled" >>
    /\ debugger = << Call("InsertExceptionBreakpoint",
                          << << "setAll", "resetAll", "setUserUnhandled" >>,
                             "*" >>) >>
    /\ body = JObj("supportsExceptionOptions" :> JBool(FALSE))

----------------------------------------------------------------------------
\* getVSCodeBreakMode

\* the keyword of the first predicate that holds, in the order Never, All,
\* OnlyUnhandled, UserUnhandled
KeywordOrder ==
    << << "Never", "never" >>, << "All", "always" >>,
       << "OnlyUnhandled", "unhandled" >>,
       << "UserUnhandled", "userUnhandled" >> >>
FirstKeyword(breakMode) ==
    LET holding == { i \in 1..Len(KeywordOrder) : breakMode[KeywordOrder[i][1]] }
    IN  IF holding = {} THEN "undefined"
        ELSE KeywordOrder[CHOOSE i \in holding : \A j \in holding : i <= j][2]

\* the break mode the engine gave in its last answer to exceptionInfo
BreakModeGiven == debugger[Len(debugger)].args[2]
\* the mode last installed by setExceptionBreakpoints
ModeInstalled == ModeAfter(DefaultMode, debugger[Len(debugger)].args[1])

(***************************************************************************)
(* C14: getVSCodeBreakMode answers with the keyword of the first of        *)
(* Never, All, OnlyUnhandled, UserUnhandled that holds of the break mode,  *)
(* and for every mode that setExceptionBreakpoints folds from a list of    *)
(* filters it answers with one of the four keywords, never "undefined".    *)
(***************************************************************************)
C14_BreakModeKeyword ==
    /\ (Handled("exceptionInfo") /\ Status = 0) =>
          body.v["breakMode"] = JStr(FirstKeyword(BreakModeGiven))
    /\ Handled("setExceptionBreakpoints") =>
          \A onlyUnhandled \in BOOLEAN :
             getVSCodeBreakMode(PredicatesOf(ModeInstalled, onlyUnhandled))
                \in { "never", "always", "unhandled", "userUnhandled" }

\* exceptionInfo was answered "always" for a mode of which All() and
\* UserUnhandled() both hold
C14_Witness ==
    /\ Handled("exceptionInfo")
    /\ Status = 0
    /\ BreakModeGiven.All /\ BreakModeGiven.UserUnhandled
    /\ ~BreakModeGiven.Never
    /\ body.v["breakMode"] = JStr("always")

----------------------------------------------------------------------------
\* setFunctionBreakpoints

\* the place of the first ch in s, counted from 1, or 0 when there is none
PlaceIn(s, ch) ==
    LET places == { i \in 1..Len(s) : SubSeq(s, i, i) = ch }
    IN  IF places = {} THEN 0
        ELSE CHOOSE i \in places : \A j \in places : i <= j

RECURSIVE ClosingPlace(_, _, _)
\* the place of the parenthesis that closes the group open at place i with
\* the given depth before it, or 0 when the group is not closed
ClosingPlace(s, i, depth) ==
    IF i > Len(s) THEN 0
    ELSE LET c == SubSeq(s, i, i)
             d == IF c = "(" THEN depth + 1
                  ELSE IF c = ")" THEN depth - 1 ELSE depth
         IN  IF d = 0 THEN i ELSE ClosingPlace(s, i + 1, d)

\* (module, name, params) of [module!]name[(params)]: the text before the
\* first "!", the first balanced group of parentheses, and what remains
Decomposition(fullName) ==
    LET bang == PlaceIn(fullName, "!")
        module == SubSeq(fullName, 1, bang - 1)
        rest == SubSeq(fullName, bang + 1, Len(fullName))
        open == PlaceIn(rest, "(")
        close == IF open = 0 THEN 0 ELSE ClosingPlace(rest, open, 0)
    IN  IF close = 0 THEN << module, rest, "" >>
        ELSE << module,
                SubSeq(rest, 1, open - 1) \o SubSeq(rest, close + 1, Len(rest)),
                SubSeq(rest, open, close) >>

\* the breakpoints of the request in hand, and what the engine was given
BreakpointsOf(req) == req.v["arguments"].v["breakpoints"].v
FuncBreakpoints == debugger[Len(debugger)].args[1]

(***************************************************************************)
(* C15: setFunctionBreakpoints gives the engine, for every breakpoint name *)
(* of the shape [module!]name[(params)], the module before the first "!"   *)
(* (empty when there is none), as params the first balanced group of       *)
(* parentheses with its parentheses (empty when there is none), and as     *)
(* name what remains; also when the parameters nest parentheses and when   *)
(* the parenthesis is not closed.                                          *)
(***************************************************************************)
C15_Original ==
    Handled("setFunctionBreakpoints") =>
       /\ debugger[Len(debugger)].op = "SetFunctionBreakpoints"
       /\ Len(FuncBreakpoints) = Len(BreakpointsOf(request))
       /\ \A k \in 1..Len(FuncBreakpoints) :
             SubSeq(FuncBreakpoints[k], 1, 3) =
                Decomposition(BreakpointsOf(request)[k].v["name"].v)

----------------------------------------------------------------------------
\* attach

\* s is an optional sign followed by decimal digits, at least one
IsInteger(s) ==
    LET digits == IF Len(s) > 0 /\ SubSeq(s, 1, 1) \in {"-", "+"}
                  THEN SubSeq(s, 2, Len(s)) ELSE s
    IN  /\ Len(digits) > 0
        /\ \A i \in 1..Len(digits) :
              SubSeq(digits, i, i) \in
                 {"0", "1", "2", "3", "4", "5", "6", "7", "8", "9"}

RECURSIVE NaturalOf(_)
\* the number a string of decimal digits denotes
NaturalOf(digits) ==
    IF digits = "" THEN 0
    ELSE 10 * NaturalOf(SubSeq(digits, 1, Len(digits) - 1))
         + DigitValue(SubSeq(digits, Len(digits), Len(digits)))
IntegerOf(s) ==
    IF SubSeq(s, 1, 1) = "-" THEN 0 - NaturalOf(SubSeq(s, 2, Len(s)))
    ELSE IF SubSeq(s, 1, 1) = "+" THEN NaturalOf(SubSeq(s, 2, Len(s)))
    ELSE NaturalOf(s)

\* the command thread has in hand an attach request with a processId: read,
\* and not yet answered
AttachInHand ==
    /\ pc[CmdThread] \in {"HandleCommand", "respond", "aborted"}
    /\ LET req == IF pc[CmdThread] = "respond" THEN request
                  ELSE IF ParseThrows(requestText) THEN EmptyObject
                  ELSE parse(requestText)
       IN  /\ AtIs(req, "command", "string")
           /\ req.v["command"].v = "attach"
           /\ AtIs(req, "arguments", "object")
           /\ Has(req.v["arguments"], "processId")
ProcessIdInHand ==
    (IF pc[CmdThread] = "respond" THEN request ELSE parse(requestText))
        .v["arguments"].v["processId"]

(***************************************************************************)
(* C16: attach gives the engine's Attach the processId as an integer when  *)
(* it is a number or a string that denotes one; when it is neither a       *)
(* string nor a number, or a string that denotes no number, the request    *)
(* ends in a failure response with the InvalidArgument status, and Attach  *)
(* is not called.                                                          *)
(***************************************************************************)
C16_Original ==
    AttachInHand =>
       /\ pc[CmdThread] # "aborted"
       /\ pc[CmdThread] = "respond" =>
             LET id == ProcessIdInHand
             IN  IF id.t = "number"
                 THEN debugger = << Call("Attach", << id.v >>) >>
                 ELSE IF id.t = "string" /\ IsInteger(id.v)
                 THEN debugger = << Call("Attach", << IntegerOf(id.v) >>) >>
                 ELSE Status = E_INVALIDARG /\ debugger = << >>

----------------------------------------------------------------------------
\* launch

\* the command thread has in hand a request for the given command: read,
\* and not yet answered
InHand(command) ==
    /\ pc[CmdThread] \in {"HandleCommand", "aborted"}
    /\ IsRequest(requestText)
    /\ CommandOf(requestText) = command

\* the environment a launch request asks for: its env when that is a map
\* from strings to strings, and the empty map otherwise
EnvironmentOf(arguments) ==
    IF /\ Has(arguments, "env")
       /\ arguments.v["env"].t = "object"
       /\ \A k \in DOMAIN arguments.v["env"].v :
             arguments.v["env"].v[k].t = "string"
    THEN [k \in DOMAIN arguments.v["env"].v |-> arguments.v["env"].v[k].v]
    ELSE << >>

\* the argument vector a launch request asks for: program, then args
ArgumentVectorOf(arguments) ==
    << arguments.v["program"].v >>
    \o (IF Has(arguments, "args")
        THEN [i \in 1..Len(arguments.v["args"].v) |->
                 arguments.v["args"].v[i].v]
        ELSE << >>)

(***************************************************************************)
(* C17: launch does not fail because of env: with env absent or not a map  *)
(* from strings to strings, Launch is called with the empty environment.   *)
(* With an executable override Launch is given the override and its        *)
(* arguments, and program and args of the request are not looked at;       *)
(* without one it is given the argument vector program, then args.         *)
(***************************************************************************)
C17_Launch ==
    /\ [][HandlerStep("launch") =>
             LET arguments == request'.v["arguments"]
                 launch == debugger'[Len(debugger')]
             IN  /\ Len(debugger') = Len(debugger) + 1
                 /\ launch.op = "Launch"
                 /\ launch.args[3] = EnvironmentOf(arguments)
                 /\ launch.args[4] = arguments.v["cwd"].v
                 /\ IF m_fileExec # ""
                    THEN /\ launch.args[1] = m_fileExec
                         /\ launch.args[2] = m_execArgs
                    ELSE launch.args[2] = ArgumentVectorOf(arguments)]_vars
    /\ []((InHand("launch") /\ pc[CmdThread] = "aborted") =>
             /\ m_fileExec = ""
             /\ ~Has(parse(requestText).v["arguments"], "program"))

\* with an override, a request without program whose env maps LANG to a
\* number was launched with the override and the empty environment
C17_Witness ==
    /\ Handled("launch")
    /\ m_fileExec = "corerun"
    /\ Has(request.v["arguments"], "env")
    /\ request.v["arguments"].v["env"] = Args1("LANG", JNum(1))
    /\ ~Has(request.v["arguments"], "program")
    /\ debugger = << Call("Launch",
                          << "corerun", << "app.dll" >>, << >>, "/", FALSE >>) >>

----------------------------------------------------------------------------
\* ReadData

\* the step of the command loop in which ReadData is called
ReadStep ==
    /\ pc[CmdThread] = "while"
    /\ ~m_exit
    /\ pc'[CmdThread] # "while"

\* one or more header blocks without Content-Length, one after the other
Skipped ==
    { Concatenation(blocks) :
        blocks \in UNION { [1..n -> BlocksWithoutLength] :
                             n \in 1..(MaxBlocks - 1) } }

(***************************************************************************)
(* C18: ReadData skips header blocks without Content-Length: when the      *)
(* stream goes on with such blocks and then a well-formed frame, ReadData  *)
(* returns the body of that frame, exactly the bytes its Content-Length    *)
(* announces, and the session goes on with it.                             *)
(***************************************************************************)
C18_SkipsHeader ==
    [][ReadStep =>
          \A skipped \in Skipped, text \in TransportBodies :
             \A frame \in Frames(text) :
                StartsWith(Unread, skipped \o frame) =>
                   /\ requestText' = text
                   /\ cin'.pos = cin.pos + Len(skipped) + Len(frame)
                   /\ text # "" => /\ pc'[CmdThread] = "LogCommand"
                                   /\ stdin' = Append(stdin, text)]_vars

\* two header blocks without Content-Length were skipped and the threads
\* request after them was answered
C18_Witness ==
    /\ \E text \in TransportBodies \ {""} : \E frame \in Frames(text) :
          /\ CommandOf(text) = "threads"
          /\ cin.text = "Content-Type: json" \o TWO_CRLF \o TWO_CRLF \o frame
          /\ stdin = << text >>
    /\ Len(Responses) = 1
    /\ pc[CmdThread] = "while"

(***************************************************************************)
(* C19: for every well-formed frame with Content-Length n, n >= 0,         *)
(* ReadData returns exactly the n bytes after the header and the command   *)
(* loop goes on to dispatch them; the loop ends, other than by disconnect, *)
(* only when the stream is closed or a read failed, that is when every     *)
(* byte sent was taken.                                                    *)
(***************************************************************************)
C19_Original ==
    /\ [][ReadStep =>
             \A text \in TransportBodies :
                \A frame \in Frames(text) :
                   StartsWith(Unread, frame) =>
                      /\ requestText' = text
                      /\ cin'.pos = cin.pos + Len(frame)
                      /\ pc'[CmdThread] = "LogCommand"]_vars
    /\ []((pc[CmdThread] \in {"after", "done"} /\ ~m_exit) =>
             cin.pos = Len(cin.text))

----------------------------------------------------------------------------
\* evaluate

(***************************************************************************)
(* C20: an evaluate request without frameId asks the engine for the last   *)
(* stopped thread and evaluates in the frame of level 0 of the thread it   *)
(* returned; an evaluate request with frameId evaluates in that frame and  *)
(* does not ask for the last stopped thread.                               *)
(***************************************************************************)
C20_EvaluateFrame ==
    [][HandlerStep("evaluate") =>
          LET arguments == request'.v["arguments"]
              expression == arguments.v["expression"].v
              n == Len(debugger)
          IN  IF Has(arguments, "frameId")
              THEN debugger' =
                      Append(debugger,
                             Call("Evaluate",
                                  << << "id", arguments.v["frameId"].v >>,
                                     expression >>))
              ELSE /\ Len(debugger') = n + 2
                   /\ debugger'[n + 1].op = "GetLastStoppedThreadId"
                   /\ debugger'[n + 2] =
                         Call("Evaluate",
                              << << "StackFrame", debugger'[n + 1].args[1], 0 >>,
                                 expression >>)]_vars

\* an evaluate without frameId was evaluated in frame 0 of thread 7, the
\* last stopped thread
C20_Witness ==
    /\ Handled("evaluate")
    /\ ~Has(request.v["arguments"], "frameId")
    /\ debugger = << Call("GetLastStoppedThreadId", << 7 >>),
                     Call("Evaluate", << << "StackFrame", 7, 0 >>, "x" >>) >>

----------------------------------------------------------------------------
\* The sequence counter and the lock

\* the threads that have chunks of a frame still to write
Writing == { t \in Threads : pend[t] # << >> }

(***************************************************************************)
(* C21: m_seqCounter is read and incremented only by a thread that holds   *)
(* m_outMutex, in EmitEvent, in the response step of CommandLoop and in    *)
(* Log of console mode; the frame that carries the seq read is written     *)
(* before that thread releases the mutex; and the counter is incremented   *)
(* once per frame and never otherwise: it is its initial value plus the    *)
(* number of frames written or being written.                              *)
(***************************************************************************)
C21_CounterUnderLock ==
    /\ [][m_seqCounter' # m_seqCounter =>
             /\ m_seqCounter' = m_seqCounter + 1
             /\ \E t \in Threads :
                   /\ m_outMutex \in {t, NoThread}
                   /\ m_outMutex' = t
                   /\ pend[t] = << >>
                   /\ Len(pend'[t]) = 2
                   /\ StartsWithSeq(pend'[t][2].text, m_seqCounter)
                   /\ pc'[t] \in {"EmitEvent_cout", "respond_cout",
                                  "EmitEvent_end", "respond_end",
                                  "LogCommand_end"}]_vars
    /\ [][cout' # cout =>
             \E t \in Threads :
                /\ m_outMutex = t /\ m_outMutex' = t
                /\ pend[t] # << >>
                /\ cout' = Append(cout, Head(pend[t]))]_vars
    /\ [][\A t \in Threads :
             (m_outMutex = t /\ m_outMutex' # t) => pend[t] = << >>]_vars
    /\ [](/\ Writing \subseteq {m_outMutex}
          /\ m_seqCounter = InitialSeq + Len(Bodies) + Cardinality(Writing))

\* console mode: an engine thread, holding the mutex, has taken seq 3 for
\* the mirror of its event and has the mirror still to write
C21_Witness ==
    /\ m_engineLogOutput = "LogConsole"
    /\ \E t \in EngineThreads :
          /\ m_outMutex = t
          /\ pc[t] = "EmitEvent_end"
          /\ Len(pend[t]) = 2
          /\ StartsWithSeq(pend[t][2].text, InitialSeq + 2)
          /\ m_seqCounter = InitialSeq + 3

----------------------------------------------------------------------------
\* The lock and the handlers

\* the command thread is between the LOG_COMMAND block and the response
\* block: a handler or an operation of the engine is executing
InHandler == pc[CmdThread] \in {"HandleCommand", "EmitEvent", "Initialize", "respond"}

\* thread t waits for m_outMutex
Waiting(t) ==
    \/ pc[t] = "EmitEvent"
    \/ t = CmdThread /\ pc[t] \in {"LogCommand", "respond"}

\* the steps thread t can take in its own code
StepsOf(t) == IF t = CmdThread THEN CmdSteps ELSE EmitEventSteps(t)

\* the event thread t emits is on std::cout, written by t
EventWritten(t) ==
    /\ pc[t] \in {"EmitEvent_cout", "EmitEvent_end"}
    /\ \E k \in 1..Len(cout) :
          /\ cout[k].by = t
          /\ cout[k].msg = EventMessage(event[t][1], event[t][2])
          /\ cout[k].text = output[t]

(***************************************************************************)
(* C22: the command thread does not hold m_outMutex while a handler or an  *)
(* operation of the engine executes: it releases it after logging the      *)
(* request and takes it again only for the response.  No thread waits for  *)
(* a mutex it holds itself, the holder of the mutex can always take a      *)
(* step, so that no two threads wait on each other, and an event emitted   *)
(* by any thread, the capabilities event of initialize included, gets the  *)
(* mutex and is written.                                                   *)
(***************************************************************************)
C22_NoLockInHandler ==
    /\ [](InHandler => m_outMutex # CmdThread)
    /\ [][(pc[CmdThread] = "LogCommand_end" /\ pc'[CmdThread] = "HandleCommand")
             => (m_outMutex = CmdThread /\ m_outMutex' = NoThread)]_vars
    /\ [][(m_outMutex # CmdThread /\ m_outMutex' = CmdThread) =>
             \/ pc[CmdThread] \in {"LogCommand", "respond"}
             \/ pc[CmdThread] = "EmitEvent"]_vars
    /\ [](\A t \in Threads : Waiting(t) => m_outMutex # t)
    /\ [](\A t \in Threads : (Alive /\ m_outMutex = t) => ENABLED StepsOf(t))
    /\ \A t \in Threads : (pc[t] = "EmitEvent") ~> EventWritten(t)

\* during the initialize handler the capabilities event of the command
\* thread waits for the mutex, which an engine thread holds for its event
C22_Witness ==
    /\ pc[CmdThread] = "EmitEvent"
    /\ event[CmdThread][1] = "capabilities"
    /\ \E t \in EngineThreads :
          /\ m_outMutex = t
          /\ pc[t] = "EmitEvent_cout"
          /\ pend[t] # << >>

----------------------------------------------------------------------------
\* A message and its mirror

\* a response or an event on std::cout that is no mirror
IsMirrored(c) == IsResponse(c) \/ (IsEvent(c) /\ ~IsMirror(c))

\* the prefix Log is given for the message
PrefixOf(c) == IF IsResponse(c) THEN LOG_RESPONSE ELSE LOG_EVENT

\* the thread is between the write of its message and the end of the
\* critical section
MirrorDue(t) ==
    /\ m_outMutex = t
    /\ pc[t] \in {"EmitEvent_cout", "respond_cout", "EmitEvent_end", "respond_end"}

\* the chunks at places i+1 and i+2 of std::cout are the frame of the
\* mirror of the message at place i
MirrorAt(i) ==
    LET c == cout[i]
        header == cout[i + 1]
        mirror == cout[i + 2]
    IN  /\ header.by = c.by /\ ~IsBodyChunk(header)
        /\ mirror.by = c.by
        /\ mirror.msg = LogMessage(PrefixOf(c), c.text)
        /\ header.text = HeaderOf(mirror.text)
        /\ \E s \in 0..m_seqCounter :
              /\ StartsWithSeq(c.text, s)
              /\ StartsWithSeq(mirror.text, s + 1)

(***************************************************************************)
(* C23: in console mode every response and every event that is no mirror,  *)
(* written with seq s, is followed on std::cout, with nothing from any     *)
(* thread in between, by the frame of the output event that mirrors it,    *)
(* written by the same thread with seq s+1; while the mirror is not yet    *)
(* complete the writer still holds m_outMutex inside the critical section  *)
(* in which it wrote the message.                                          *)
(***************************************************************************)
C23_MirrorFollows ==
    [](m_engineLogOutput = "LogConsole" =>
          \A i \in 1..Len(cout) :
             IsMirrored(cout[i]) =>
                /\ i + 2 <= Len(cout) => MirrorAt(i)
                /\ i + 2 > Len(cout) =>
                      /\ MirrorDue(cout[i].by)
                      /\ i + 1 = Len(cout) =>
                            /\ cout[i + 1].by = cout[i].by
                            /\ ~IsBodyChunk(cout[i + 1])
                            /\ pc[cout[i].by] \in {"EmitEvent_end", "respond_end"})

\* a response of the command thread and an event of an engine thread are
\* on std::cout, each followed by its mirror, and another engine thread
\* has written its event and holds the mutex for the mirror
C23_Witness ==
    /\ m_engineLogOutput = "LogConsole"
    /\ \E i, j \in 1..Len(cout) :
          /\ i + 2 <= Len(cout) /\ j + 2 <= Len(cout)
          /\ IsResponse(cout[i]) /\ MirrorAt(i)
          /\ IsEvent(cout[j]) /\ cout[j].by \in EngineThreads /\ MirrorAt(j)
    /\ IsMirrored(cout[Len(cout)])
    /\ cout[Len(cout)].by \in EngineThreads
    /\ MirrorDue(cout[Len(cout)].by)

====
